---- MODULE Spec2Model ----
(***************************************************************************)
(* ALICE-Text: columnar encode/decode pipeline, v3 container and query     *)
(* engine.  Texts are sequences of one-character strings; u32 addresses    *)
(* are their four big-endian octets, u128 values their eight big-endian    *)
(* 16-bit groups, i64 millisecond values a pair <<days, ms of day>>, f64   *)
(* numbers a normalised decimal <<mantissa, fraction digits>>.             *)
(***************************************************************************)
EXTENDS Integers, Sequences, FiniteSets, TLC

VARIABLES
    text,       \* the input text T handed to the encoder
    level,      \* CompressionLevel of the FormatV3Writer
    pc,         \* position in the pipeline
    skeleton,   \* skeleton string built by extract_skeleton
    matches,    \* matches of extract_skeleton, in start order
    payload,    \* the ColumnarPayload under construction / as encoded
    added,      \* the (pattern_type, text) pairs handed to add_match, in order
    file,       \* the bytes handed to the reader
    engine,     \* the metadata a QueryEngine holds once opened
    call,       \* the last read-side operation and its arguments
    result,     \* outcome of the last operation
    blob_reads  \* column tags whose blob the last operation decoded

vars == <<text, level, pc, skeleton, matches, payload, added, file, engine,
          call, result, blob_reads>>

(***************************************************************************)
(* Characters                                                              *)
(***************************************************************************)
Digit == {"0", "1", "2", "3", "4", "5", "6", "7", "8", "9"}

HexLower == {"a", "b", "c", "d", "e", "f"}

HexUpper == {"A", "B", "C", "D", "E", "F"}

HexDigit == Digit \cup HexLower \cup HexUpper

Lower == {"a", "b", "c", "d", "e", "f", "g", "h", "i", "j", "k", "l", "m",
          "n", "o", "p", "q", "r", "s", "t", "u", "v", "w", "x", "y", "z"}

Upper == {"A", "B", "C", "D", "E", "F", "G", "H", "I", "J", "K", "L", "M",
          "N", "O", "P", "Q", "R", "S", "T", "U", "V", "W", "X", "Y", "Z"}

Alpha == Lower \cup Upper

AlphaNum == Alpha \cup Digit

Whitespace == {" ", "\n", "\t", "\r"}

DigitVal(c) ==
    CASE c = "0" -> 0 [] c = "1" -> 1 [] c = "2" -> 2 [] c = "3" -> 3
      [] c = "4" -> 4 [] c = "5" -> 5 [] c = "6" -> 6 [] c = "7" -> 7
      [] c = "8" -> 8 [] c = "9" -> 9
      [] c \in {"a", "A"} -> 10 [] c \in {"b", "B"} -> 11
      [] c \in {"c", "C"} -> 12 [] c \in {"d", "D"} -> 13
      [] c \in {"e", "E"} -> 14 [] c \in {"f", "F"} -> 15

DigitChar(d) ==
    CASE d = 0 -> "0" [] d = 1 -> "1" [] d = 2 -> "2" [] d = 3 -> "3"
      [] d = 4 -> "4" [] d = 5 -> "5" [] d = 6 -> "6" [] d = 7 -> "7"
      [] d = 8 -> "8" [] d = 9 -> "9" [] d = 10 -> "a" [] d = 11 -> "b"
      [] d = 12 -> "c" [] d = 13 -> "d" [] d = 14 -> "e" [] d = 15 -> "f"

\* str::to_uppercase on one ASCII character
ToUpperChar(c) ==
    CASE c = "a" -> "A" [] c = "b" -> "B" [] c = "c" -> "C" [] c = "d" -> "D"
      [] c = "e" -> "E" [] c = "f" -> "F" [] c = "g" -> "G" [] c = "h" -> "H"
      [] c = "i" -> "I" [] c = "j" -> "J" [] c = "k" -> "K" [] c = "l" -> "L"
      [] c = "m" -> "M" [] c = "n" -> "N" [] c = "o" -> "O" [] c = "p" -> "P"
      [] c = "q" -> "Q" [] c = "r" -> "R" [] c = "s" -> "S" [] c = "t" -> "T"
      [] c = "u" -> "U" [] c = "v" -> "V" [] c = "w" -> "W" [] c = "x" -> "X"
      [] c = "y" -> "Y" [] c = "z" -> "Z" [] OTHER -> c

ToUpper(s) == [k \in 1..Len(s) |-> ToUpperChar(s[k])]

(***************************************************************************)
(* String helpers                                                          *)
(***************************************************************************)
\* s[i..j) as the code's slices: from position i up to, not including, j
Slice(s, i, j) == SubSeq(s, i, j - 1)

\* the character at position i, or "" past the end
At(s, i) == IF i >= 1 /\ i <= Len(s) THEN s[i] ELSE ""

\* n characters of class S start at position i
AllIn(s, i, n, S) == i + n - 1 <= Len(s) /\ \A k \in i..(i + n - 1) : s[k] \in S

\* first position >= i whose character is outside S (Len(s) + 1 if none)
RECURSIVE RunEnd(_, _, _)
RunEnd(s, i, S) == IF i <= Len(s) /\ s[i] \in S THEN RunEnd(s, i + 1, S) ELSE i

\* value of a run of decimal digits
RECURSIVE DecVal(_)
DecVal(s) == IF s = <<>> THEN 0 ELSE 10 * DecVal(SubSeq(s, 1, Len(s) - 1)) + DigitVal(s[Len(s)])

\* value of a run of hexadecimal digits
RECURSIVE HexVal(_)
HexVal(s) == IF s = <<>> THEN 0 ELSE 16 * HexVal(SubSeq(s, 1, Len(s) - 1)) + DigitVal(s[Len(s)])

\* usize/i64 to_string
RECURSIVE DecStr(_)
DecStr(n) == IF n < 10 THEN <<DigitChar(n)>> ELSE DecStr(n \div 10) \o <<DigitChar(n % 10)>>

\* the digits ds with zeros before them up to the width w
PadLeft(ds, w) ==
    IF Len(ds) >= w THEN ds
    ELSE [k \in 1..w |-> IF k <= w - Len(ds) THEN "0" ELSE ds[k - (w - Len(ds))]]

\* format!("{:0w$}", n)
Pad(n, w) == PadLeft(DecStr(n), w)

\* format!("{:x}", n)
RECURSIVE HexStr(_)
HexStr(n) == IF n < 16 THEN <<DigitChar(n)>> ELSE HexStr(n \div 16) \o <<DigitChar(n % 16)>>

\* format!("{:04x}", n)
Hex4(n) == <<DigitChar(n \div 4096), DigitChar((n \div 256) % 16),
             DigitChar((n \div 16) % 16), DigitChar(n % 16)>>

\* the string w stands at position i of t
IsAt(t, i, w) == i >= 1 /\ i + Len(w) - 1 <= Len(t) /\ Slice(t, i, i + Len(w)) = w

\* str::contains(pat)
Contains(s, pat) ==
    \E i \in 1..(Len(s) + 1) : i + Len(pat) - 1 <= Len(s) /\ Slice(s, i, i + Len(pat)) = pat

StartsWith(s, pat) == Len(pat) <= Len(s) /\ SubSeq(s, 1, Len(pat)) = pat

EndsWith(s, pat) == Len(pat) <= Len(s) /\ SubSeq(s, Len(s) - Len(pat) + 1, Len(s)) = pat

RECURSIVE Concat(_)
Concat(ss) == IF ss = <<>> THEN <<>> ELSE Head(ss) \o Concat(Tail(ss))

RECURSIVE Pow10(_)
Pow10(n) == IF n = 0 THEN 1 ELSE 10 * Pow10(n - 1)

(***************************************************************************)
(* PATTERNS: the alternatives of the fused regex, in priority order.  Each *)
(* matcher gives the position just past the match that starts at i, as the *)
(* leftmost-first (backtracking-order) semantics of the regex crate choose *)
(* it, or 0 when the alternative does not match at i.                      *)
(***************************************************************************)
\* (?:\.\d+)? : greedy optional fraction starting at position e
FractionEnd(t, e) ==
    IF At(t, e) = "." /\ At(t, e + 1) \in Digit THEN RunEnd(t, e + 1, Digit) ELSE e

\* (?:Z|[+-]\d{2}:?\d{2})? starting at position e
TzEnd(t, e) ==
    IF At(t, e) = "Z" THEN e + 1
    ELSE IF At(t, e) \in {"+", "-"} /\ AllIn(t, e + 1, 2, Digit)
         THEN IF At(t, e + 3) = ":" /\ AllIn(t, e + 4, 2, Digit) THEN e + 6
              ELSE IF AllIn(t, e + 3, 2, Digit) THEN e + 5
              ELSE e
         ELSE e

\* \d{4}-\d{2}-\d{2}
DateShape(t, i) ==
    /\ AllIn(t, i, 4, Digit) /\ At(t, i + 4) = "-"
    /\ AllIn(t, i + 5, 2, Digit) /\ At(t, i + 7) = "-"
    /\ AllIn(t, i + 8, 2, Digit)

\* \d{2}:\d{2}:\d{2}
TimeShape(t, i) ==
    /\ AllIn(t, i, 2, Digit) /\ At(t, i + 2) = ":"
    /\ AllIn(t, i + 3, 2, Digit) /\ At(t, i + 5) = ":"
    /\ AllIn(t, i + 6, 2, Digit)

\* \d{4}-\d{2}-\d{2}[T ]\d{2}:\d{2}:\d{2}(?:\.\d+)?(?:Z|[+-]\d{2}:?\d{2})?
MatchTimestamp(t, i) ==
    IF DateShape(t, i) /\ At(t, i + 10) \in {"T", " "} /\ TimeShape(t, i + 11)
    THEN TzEnd(t, FractionEnd(t, i + 19))
    ELSE 0

\* [0-9a-fA-F]{8}-[0-9a-fA-F]{4}-[0-9a-fA-F]{4}-[0-9a-fA-F]{4}-[0-9a-fA-F]{12}
MatchUUID(t, i) ==
    IF /\ AllIn(t, i, 8, HexDigit) /\ At(t, i + 8) = "-"
       /\ AllIn(t, i + 9, 4, HexDigit) /\ At(t, i + 13) = "-"
       /\ AllIn(t, i + 14, 4, HexDigit) /\ At(t, i + 18) = "-"
       /\ AllIn(t, i + 19, 4, HexDigit) /\ At(t, i + 23) = "-"
       /\ AllIn(t, i + 24, 12, HexDigit)
    THEN i + 36
    ELSE 0

EmailLocal == AlphaNum \cup {".", "_", "%", "+", "-"}

EmailDomain == AlphaNum \cup {".", "-"}

\* [a-zA-Z0-9._%+-]+@[a-zA-Z0-9.-]+\.[a-zA-Z]{2,} : the domain run is greedy,
\* so the last dot that leaves a domain character before it and two letters
\* after it ends the domain
MatchEmail(t, i) ==
    LET a == RunEnd(t, i, EmailLocal)
        d == RunEnd(t, a + 1, EmailDomain)
        dots == {k \in (a + 2)..(d - 1) : t[k] = "." /\ AllIn(t, k + 1, 2, Alpha)}
    IN  IF a > i /\ At(t, a) = "@" /\ dots # {}
        THEN LET k == CHOOSE x \in dots : \A y \in dots : y <= x
             IN  RunEnd(t, k + 1, Alpha)
        ELSE 0

UrlStop == Whitespace \cup {"<", ">", "\"", "'"}

\* first position >= i holding a character of S (Len(s) + 1 if none)
RECURSIVE FindIn(_, _, _)
FindIn(s, i, S) == IF i <= Len(s) /\ s[i] \notin S THEN FindIn(s, i + 1, S) ELSE i

\* https?://[^\s<>"']+
MatchURL(t, i) ==
    LET p == IF IsAt(t, i, <<"h", "t", "t", "p", "s">>) THEN i + 5
             ELSE IF IsAt(t, i, <<"h", "t", "t", "p">>) THEN i + 4
             ELSE 0
    IN  IF p # 0 /\ IsAt(t, p, <<":", "/", "/">>) /\ p + 3 <= Len(t)
           /\ t[p + 3] \notin UrlStop
        THEN FindIn(t, p + 3, UrlStop)
        ELSE 0

\* (?:[0-9a-fA-F]{1,4}:){n} then [0-9a-fA-F]{1,4}
RECURSIVE Ipv6Groups(_, _, _)
Ipv6Groups(t, i, n) ==
    LET e == RunEnd(t, i, HexDigit)
    IN  IF n = 0
        THEN IF e > i THEN (IF e - i > 4 THEN i + 4 ELSE e) ELSE 0
        ELSE IF e > i /\ e - i <= 4 /\ At(t, e) = ":" THEN Ipv6Groups(t, e + 1, n - 1)
             ELSE 0

\* (?:[0-9a-fA-F]{1,4}:){7}[0-9a-fA-F]{1,4}
MatchIPv6(t, i) == Ipv6Groups(t, i, 7)

\* the lengths 25[0-5]|2[0-4][0-9]|[01]?[0-9][0-9]? can take at position i, in
\* the order the regex tries them
OctetLens(t, i) ==
    (IF At(t, i) = "2" /\ At(t, i + 1) = "5" /\ At(t, i + 2) \in {"0", "1", "2", "3", "4", "5"}
     THEN <<3>> ELSE <<>>)
    \o (IF At(t, i) = "2" /\ At(t, i + 1) \in {"0", "1", "2", "3", "4"} /\ At(t, i + 2) \in Digit
        THEN <<3>> ELSE <<>>)
    \o (IF At(t, i) \in {"0", "1"} /\ At(t, i + 1) \in Digit
        THEN (IF At(t, i + 2) \in Digit THEN <<3, 2>> ELSE <<2>>) ELSE <<>>)
    \o (IF At(t, i) \in Digit
        THEN (IF At(t, i + 1) \in Digit THEN <<2, 1>> ELSE <<1>>) ELSE <<>>)

\* n more octets, each followed by a dot, then the last octet; tries the
\* candidate lengths ls of the octet at i in order
RECURSIVE Ipv4From(_, _, _, _)
Ipv4From(t, i, n, ls) ==
    IF ls = <<>> THEN 0
    ELSE LET e == i + Head(ls)
             r == IF n = 0 THEN e
                  ELSE IF At(t, e) = "." THEN Ipv4From(t, e + 1, n - 1, OctetLens(t, e + 1))
                  ELSE 0
         IN  IF r # 0 THEN r ELSE Ipv4From(t, i, n, Tail(ls))

\* (?:(?:25[0-5]|2[0-4][0-9]|[01]?[0-9][0-9]?)\.){3}(?:25[0-5]|...)
MatchIPv4(t, i) == Ipv4From(t, i, 3, OctetLens(t, i))

\* \d{4}-\d{2}-\d{2}
MatchDate(t, i) == IF DateShape(t, i) THEN i + 10 ELSE 0

\* \d{2}:\d{2}:\d{2}(?:\.\d+)?
MatchTime(t, i) == IF TimeShape(t, i) THEN FractionEnd(t, i + 8) ELSE 0

PathChar == AlphaNum \cup {".", "_", "-"}

\* (?:/[a-zA-Z0-9._-]+)+ continued from a segment that starts at i
RECURSIVE PathSegments(_, _)
PathSegments(t, i) ==
    LET e == RunEnd(t, i + 1, PathChar)
    IN  IF At(t, e) = "/" /\ At(t, e + 1) \in PathChar THEN PathSegments(t, e) ELSE e

\* (?:/[a-zA-Z0-9._-]+)+/?
MatchPath(t, i) ==
    IF At(t, i) = "/" /\ At(t, i + 1) \in PathChar
    THEN LET e == PathSegments(t, i) IN IF At(t, e) = "/" THEN e + 1 ELSE e
    ELSE 0

\* 0x[0-9a-fA-F]+
MatchHex(t, i) ==
    IF At(t, i) = "0" /\ At(t, i + 1) = "x" /\ At(t, i + 2) \in HexDigit
    THEN RunEnd(t, i + 2, HexDigit)
    ELSE 0

\* (?:DEBUG|INFO|WARN(?:ING)?|ERROR|FATAL|TRACE|CRITICAL)
MatchLogLevel(t, i) ==
    IF IsAt(t, i, <<"D", "E", "B", "U", "G">>) THEN i + 5
    ELSE IF IsAt(t, i, <<"I", "N", "F", "O">>) THEN i + 4
    ELSE IF IsAt(t, i, <<"W", "A", "R", "N">>)
         THEN (IF IsAt(t, i + 4, <<"I", "N", "G">>) THEN i + 7 ELSE i + 4)
    ELSE IF IsAt(t, i, <<"E", "R", "R", "O", "R">>) THEN i + 5
    ELSE IF IsAt(t, i, <<"F", "A", "T", "A", "L">>) THEN i + 5
    ELSE IF IsAt(t, i, <<"T", "R", "A", "C", "E">>) THEN i + 5
    ELSE IF IsAt(t, i, <<"C", "R", "I", "T", "I", "C", "A", "L">>) THEN i + 8
    ELSE 0

\* \d+(?:\.\d+)?
MatchNumber(t, i) ==
    IF At(t, i) \in Digit THEN FractionEnd(t, RunEnd(t, i, Digit)) ELSE 0

\* PATTERNS, in the order of the array: the name of each alternative
PATTERNS ==
    <<"Timestamp", "UUID", "Email", "URL", "IPv6", "IPv4", "Date", "Time",
      "Path", "Hex", "LogLevel", "Number">>

\* end of the match of alternative `name` at position i (0: no match)
MatchPattern(name, t, i) ==
    CASE name = "Timestamp" -> MatchTimestamp(t, i)
      [] name = "UUID" -> MatchUUID(t, i)
      [] name = "Email" -> MatchEmail(t, i)
      [] name = "URL" -> MatchURL(t, i)
      [] name = "IPv6" -> MatchIPv6(t, i)
      [] name = "IPv4" -> MatchIPv4(t, i)
      [] name = "Date" -> MatchDate(t, i)
      [] name = "Time" -> MatchTime(t, i)
      [] name = "Path" -> MatchPath(t, i)
      [] name = "Hex" -> MatchHex(t, i)
      [] name = "LogLevel" -> MatchLogLevel(t, i)
      [] name = "Number" -> MatchNumber(t, i)

(***************************************************************************)
(* TunedPatternLearner                                                     *)
(***************************************************************************)
\* the group of the fused regex that matches at position i: the first
\* alternative, in PATTERNS order, that matches there (0: none does)
RECURSIVE FirstGroup(_, _, _)
FirstGroup(t, i, k) ==
    IF k > Len(PATTERNS) THEN 0
    ELSE IF MatchPattern(PATTERNS[k], t, i) # 0 THEN k
    ELSE FirstGroup(t, i, k + 1)

\* fused_regex.captures_iter(text): the non-overlapping leftmost matches from
\* position i on, each with the group that matched
RECURSIVE CapturesIter(_, _)

\* a capture whose start and end count the bytes from 1
CapturesToFromOne(t, i, k, e) ==
    <<[pattern_type |-> PATTERNS[k], start |-> i, end |-> e,
       matched_text |-> Slice(t, i, e)]>>
    \o CapturesIter(t, e)

\* the capture of group k from position i to e, and the captures after it
CapturesTo(t, i, k, e) ==
    <<[pattern_type |-> PATTERNS[k], start |-> i - 1, end |-> e - 1,
       matched_text |-> Slice(t, i, e)]>>
    \o CapturesIter(t, e)

\* the captures from position i on, k being the group that matches there
CapturesFrom(t, i, k) ==
    IF k = 0 THEN CapturesIter(t, i + 1)
    ELSE CapturesTo(t, i, k, MatchPattern(PATTERNS[k], t, i))

CapturesIter(t, i) ==
    IF i > Len(t) THEN <<>> ELSE CapturesFrom(t, i, FirstGroup(t, i, 1))

\* the loop of find_matches over the captures: a capture whose range touches
\* a covered byte is skipped, the others are pushed and their range covered
RECURSIVE AcceptUncovered(_, _, _)
AcceptUncovered(caps, covered, acc) ==
    IF caps = <<>> THEN acc
    ELSE LET m == Head(caps)
             range == (m.start + 1)..m.end
         IN  IF range \cap covered # {}
             THEN AcceptUncovered(Tail(caps), covered, acc)
             ELSE AcceptUncovered(Tail(caps), covered \cup range, Append(acc, m))

\* matches.sort_by_key(|m| m.start): stable insertion by start
RECURSIVE SortByStart(_)
SortByStart(ms) ==
    IF ms = <<>> THEN <<>>
    ELSE LET rest == SortByStart(SubSeq(ms, 1, Len(ms) - 1))
             m == ms[Len(ms)]
             k == Cardinality({j \in 1..Len(rest) : rest[j].start <= m.start})
         IN  SubSeq(rest, 1, k) \o <<m>> \o SubSeq(rest, k + 1, Len(rest))

find_matches(t) == SortByStart(AcceptUncovered(CapturesIter(t, 1), {}, <<>>))

\* "{i}" as extract_skeleton and restore_text write it
Placeholder(i) == <<"{">> \o DecStr(i) \o <<"}">>

\* the loop of extract_skeleton from match k on, last_end being the end of the
\* previous match
RECURSIVE SkeletonFrom(_, _, _, _)
SkeletonFrom(t, ms, k, last_end) ==
    IF k > Len(ms) THEN Slice(t, last_end + 1, Len(t) + 1)
    ELSE Slice(t, last_end + 1, ms[k].start + 1) \o Placeholder(k - 1)
         \o SkeletonFrom(t, ms, k + 1, ms[k].end)

\* the skeleton of a text whose matches are ms
SkeletonOf(t, ms) == IF ms = <<>> THEN t ELSE SkeletonFrom(t, ms, 1, 0)

\* the skeleton of extract_skeleton(text); its matches are find_matches(text)
extract_skeleton(t) == SkeletonOf(t, find_matches(t))

\* str::replace(pat, rep): every non-overlapping occurrence, left to right
RECURSIVE Replace(_, _, _)
Replace(s, pat, rep) ==
    IF Len(s) < Len(pat) THEN s
    ELSE IF SubSeq(s, 1, Len(pat)) = pat
         THEN rep \o Replace(SubSeq(s, Len(pat) + 1, Len(s)), pat, rep)
         ELSE <<s[1]>> \o Replace(Tail(s), pat, rep)

\* restore_text: the placeholders are replaced in reverse order, i = k - 1
RECURSIVE RestoreFrom(_, _, _)
RestoreFrom(res, ms, k) ==
    IF k = 0 THEN res
    ELSE RestoreFrom(Replace(res, Placeholder(k - 1), ms[k].matched_text), ms, k - 1)

restore_text(skel, ms) == RestoreFrom(skel, ms, Len(ms))

(***************************************************************************)
(* Option<T>: None is the empty sequence, Some(x) the sequence <<x>>       *)
(***************************************************************************)
None == <<>>

Some(x) == <<x>>

IsSome(o) == Len(o) = 1

Unwrap(o) == o[1]

(***************************************************************************)
(* LogLevel                                                                *)
(***************************************************************************)
\* LogLevel::parse_level(s) as u8
parse_level(s) ==
    LET u == ToUpper(s)
    IN  CASE u = <<"T", "R", "A", "C", "E">> -> 0
          [] u = <<"D", "E", "B", "U", "G">> -> 1
          [] u = <<"I", "N", "F", "O">> -> 2
          [] u = <<"W", "A", "R", "N">> \/ u = <<"W", "A", "R", "N", "I", "N", "G">> -> 3
          [] u = <<"E", "R", "R", "O", "R">> -> 4
          [] u = <<"F", "A", "T", "A", "L">> -> 5
          [] u = <<"C", "R", "I", "T", "I", "C", "A", "L">> -> 6
          [] OTHER -> 7

\* LogLevel::from_u8(v).to_str()
level_to_str(v) ==
    CASE v = 0 -> <<"T", "R", "A", "C", "E">>
      [] v = 1 -> <<"D", "E", "B", "U", "G">>
      [] v = 2 -> <<"I", "N", "F", "O">>
      [] v = 3 -> <<"W", "A", "R", "N">>
      [] v = 4 -> <<"E", "R", "R", "O", "R">>
      [] v = 5 -> <<"F", "A", "T", "A", "L">>
      [] v = 6 -> <<"C", "R", "I", "T", "I", "C", "A", "L">>
      [] OTHER -> <<"U", "N", "K", "N", "O", "W", "N">>

(***************************************************************************)
(* Calendar arithmetic of chrono (proleptic Gregorian)                     *)
(***************************************************************************)
MsPerDay == 86400000

IsLeap(y) == (y % 4 = 0 /\ y % 100 # 0) \/ y % 400 = 0

DaysInMonth(y, m) ==
    IF m = 2 THEN (IF IsLeap(y) THEN 29 ELSE 28)
    ELSE IF m \in {4, 6, 9, 11} THEN 30 ELSE 31

ValidDate(y, m, d) == m >= 1 /\ m <= 12 /\ d >= 1 /\ d <= DaysInMonth(y, m)

\* days from 1970-01-01 to y-m-d
DaysFromCivil(y, m, d) ==
    LET yy == IF m <= 2 THEN y - 1 ELSE y
        era == yy \div 400
        yoe == yy - era * 400
        mp == IF m > 2 THEN m - 3 ELSE m + 9
        doy == (153 * mp + 2) \div 5 + d - 1
        doe == yoe * 365 + yoe \div 4 - yoe \div 100 + doy
    IN  era * 146097 + doe - 719468

\* civil_from_days once the year of the era, the day of the year and the
\* month index mp are known
CivilFromMp(y0, doy, mp) ==
    LET m == IF mp < 10 THEN mp + 3 ELSE mp - 9
    IN  <<IF m <= 2 THEN y0 + 1 ELSE y0, m, doy - (153 * mp + 2) \div 5 + 1>>

\* civil_from_days once the year of the era is known
CivilFromYoe(era, doe, yoe) ==
    LET doy == doe - (365 * yoe + yoe \div 4 - yoe \div 100)
    IN  CivilFromMp(yoe + era * 400, doy, (5 * doy + 2) \div 153)

\* civil_from_days once the era and the day of the era are known
CivilFromDoe(era, doe) ==
    CivilFromYoe(era, doe,
                 (doe - doe \div 1460 + doe \div 36524 - doe \div 146096) \div 365)

\* <<y, m, d>> of the day z days after 1970-01-01
CivilFromDays(z) ==
    CivilFromDoe((z + 719468) \div 146097,
                 (z + 719468) - ((z + 719468) \div 146097) * 146097)

(***************************************************************************)
(* i64 milliseconds, kept as <<days, ms of day>> with 0 <= ms < MsPerDay   *)
(***************************************************************************)
MsNorm(d, m) == <<d + m \div MsPerDay, m % MsPerDay>>

MsAdd(a, b) == MsNorm(a[1] + b[1], a[2] + b[2])

MsSub(a, b) == MsNorm(a[1] - b[1], a[2] - b[2])

MsZero == <<0, 0>>

MsLess(a, b) == a[1] < b[1] \/ (a[1] = b[1] /\ a[2] < b[2])

\* the first three digits of a fraction, as milliseconds
FracMs(ds) ==
    DecVal([k \in 1..3 |-> IF k <= Len(ds) THEN ds[k] ELSE "0"])

(***************************************************************************)
(* chrono parsing of the timestamp formats                                 *)
(***************************************************************************)
\* the fields of a string shaped "YYYY-MM-DD?HH:MM:SS": valid date and time
ValidDateTimeFields(s) ==
    /\ ValidDate(DecVal(SubSeq(s, 1, 4)), DecVal(SubSeq(s, 6, 7)), DecVal(SubSeq(s, 9, 10)))
    /\ DecVal(SubSeq(s, 12, 13)) <= 23
    /\ DecVal(SubSeq(s, 15, 16)) <= 59
    /\ DecVal(SubSeq(s, 18, 19)) <= 60

\* local milliseconds of the date and time fields plus the fraction digits fr
LocalMs(s, fr) ==
    MsNorm(DaysFromCivil(DecVal(SubSeq(s, 1, 4)), DecVal(SubSeq(s, 6, 7)), DecVal(SubSeq(s, 9, 10))),
           DecVal(SubSeq(s, 12, 13)) * 3600000 + DecVal(SubSeq(s, 15, 16)) * 60000
           + DecVal(SubSeq(s, 18, 19)) * 1000 + FracMs(fr))

\* the parse of a naive format whose items end before position e
ParseNaiveTo(s, e) ==
    IF e = Len(s) + 1
    THEN Some(LocalMs(s, Slice(s, IF e > 20 THEN 21 ELSE 20, e)))
    ELSE None

\* NaiveDateTime::parse_from_str(s, fmt) for "%Y-%m-%d{sep}%H:%M:%S" followed by
\* "%.f" when frac: Some(ms) or None
ParseNaive(s, sep, frac) ==
    IF DateShape(s, 1) /\ At(s, 11) = sep /\ TimeShape(s, 12) /\ ValidDateTimeFields(s)
    THEN ParseNaiveTo(s, IF frac THEN FractionEnd(s, 20) ELSE 20)
    ELSE None

\* the offset of the given sign, hours and minutes, in seconds
ParseOffsetFields(sign, hh, mm) ==
    IF mm <= 59 /\ hh <= 23
    THEN Some((IF sign = "-" THEN -1 ELSE 1) * (hh * 3600 + mm * 60))
    ELSE None

ParseOffsetMinutes(s, e, c) ==
    IF AllIn(s, e + 3 + c, 2, Digit) /\ e + 4 + c = Len(s)
    THEN ParseOffsetFields(s[e], DecVal(Slice(s, e + 1, e + 3)),
                           DecVal(Slice(s, e + 3 + c, e + 5 + c)))
    ELSE None

\* the offset "[+-]hh[:]mm" that fills s from position e to its end, in
\* seconds: Some(secs) or None (minutes above 59 or an offset of a day or
\* more are out of range)
ParseOffset(s, e) ==
    IF At(s, e) \in {"+", "-"} /\ AllIn(s, e + 1, 2, Digit)
    THEN ParseOffsetMinutes(s, e, IF At(s, e + 3) = ":" THEN 1 ELSE 0)
    ELSE None

\* the parse of a format with an offset item that starts at position e, off
\* being what the item parsed
ParseTzWith(s, e, off) ==
    IF IsSome(off)
    THEN Some(<<MsSub(LocalMs(s, Slice(s, IF e > 20 THEN 21 ELSE 20, e)),
                      MsNorm(0, Unwrap(off) * 1000)),
                Unwrap(off)>>)
    ELSE None

\* the parse of a format whose offset item starts at position e
ParseTzTo(s, e) == ParseTzWith(s, e, ParseOffset(s, e))

\* DateTime::parse_from_str(s, fmt) for "%Y-%m-%dT%H:%M:%S" followed by "%.f"
\* when frac and then by "%:z" when zone is "offset" or by the literal "Z" when
\* zone is "Z": Some(<<utc ms, offset secs>>) or None.  A format without an
\* offset item gives DateTime::parse_from_str no offset, and it fails.
ParseTz(s, frac, zone) ==
    IF zone = "offset" /\ DateShape(s, 1) /\ At(s, 11) = "T" /\ TimeShape(s, 12)
       /\ ValidDateTimeFields(s)
    THEN ParseTzTo(s, IF frac THEN FractionEnd(s, 20) ELSE 20)
    ELSE None

\* TIMESTAMP_FORMATS_NAIVE[idx] (idx from 0): Some(ms) or None
ParseNaiveFormat(s, idx) ==
    IF idx \in 0..3
    THEN ParseNaive(s, IF idx \in {0, 1} THEN " " ELSE "T", idx \in {0, 2})
    ELSE None

\* TIMESTAMP_FORMATS_TZ[idx] (idx from 0): Some(<<ms, offset>>) or None
ParseTzFormat(s, idx) ==
    IF idx \in 0..3
    THEN ParseTz(s, idx \in {0, 2}, IF idx \in {0, 1} THEN "offset" ELSE "Z")
    ELSE None

(***************************************************************************)
(* TimestampColumn                                                         *)
(***************************************************************************)
\* number of formats in TIMESTAMP_FORMATS_NAIVE and in TIMESTAMP_FORMATS_TZ
NFormats == 4

\* TimestampColumn::default()
TimestampColumnDefault ==
    [base |-> None, base_ms |-> None, deltas |-> <<>>, raw |-> <<>>,
     cached_format_idx |-> None, last_ms |-> MsZero, base_offset_secs |-> None]

\* the first index from idx on whose TZ format parses s (NFormats: none)
RECURSIVE FirstTzFormat(_, _)
FirstTzFormat(s, idx) ==
    IF idx >= NFormats \/ IsSome(ParseTzFormat(s, idx)) THEN idx
    ELSE FirstTzFormat(s, idx + 1)

\* the first index from idx on whose naive format parses s (NFormats: none)
RECURSIVE FirstNaiveFormat(_, _)
FirstNaiveFormat(s, idx) ==
    IF idx >= NFormats \/ IsSome(ParseNaiveFormat(s, idx)) THEN idx
    ELSE FirstNaiveFormat(s, idx + 1)

\* the column after a TZ format parsed <<ms, offset>>: the offset is captured
\* when the column holds none yet
CaptureOffset(col, parsed) ==
    IF col.base_offset_secs = None
    THEN [col EXCEPT !.base_offset_secs = Some(parsed[2])]
    ELSE col

\* what parse_timestamp returns when a format with an offset parsed s
ParsedTz(col, parsed) ==
    [col |-> CaptureOffset(col, Unwrap(parsed)), ms |-> Some(Unwrap(parsed)[1])]

\* the two loops of parse_timestamp, tz and nv the first formats that parse s
ParseUncached(col, s, tz, nv) ==
    IF tz < NFormats
    THEN ParsedTz([col EXCEPT !.cached_format_idx = Some(<<"Tz", tz>>)],
                  ParseTzFormat(s, tz))
    ELSE IF nv < NFormats
    THEN [col |-> [col EXCEPT !.cached_format_idx = Some(<<"Naive", nv>>)],
          ms |-> ParseNaiveFormat(s, nv)]
    ELSE [col |-> col, ms |-> None]

\* the fast path of parse_timestamp, given what the cached format parses
ParseCached(col, s, cachedNaive, cachedTz) ==
    IF IsSome(cachedNaive) THEN [col |-> col, ms |-> cachedNaive]
    ELSE IF IsSome(cachedTz) THEN ParsedTz(col, cachedTz)
    ELSE ParseUncached(col, s, FirstTzFormat(s, 0), FirstNaiveFormat(s, 0))

\* the format the column has cached, tried when it is of the given kind
TryCached(c, kind, parsed) ==
    IF IsSome(c) /\ Unwrap(c)[1] = kind THEN parsed ELSE None

\* the index of the cached format, NFormats when there is none
CachedIdx(c) == IF IsSome(c) THEN Unwrap(c)[2] ELSE NFormats

\* parse_timestamp(&mut self, s): the column afterwards and Some(ms) or None
parse_timestamp(col, s) ==
    ParseCached(col, s,
                TryCached(col.cached_format_idx, "Naive",
                          ParseNaiveFormat(s, CachedIdx(col.cached_format_idx))),
                TryCached(col.cached_format_idx, "Tz",
                          ParseTzFormat(s, CachedIdx(col.cached_format_idx))))

\* a column that measures every delta from the base instead of from the
\* timestamp before it
TsAddedFromBase(c, s, ms) ==
    IF IsSome(ms)
    THEN IF c.base_ms = None
         THEN [col |-> [c EXCEPT !.base = Some(s), !.base_ms = ms,
                                 !.last_ms = Unwrap(ms),
                                 !.deltas = Append(c.deltas, MsZero)],
               is_delta |-> TRUE, idx |-> Len(c.deltas)]
         ELSE [col |-> [c EXCEPT !.last_ms = Unwrap(ms),
                                 !.deltas = Append(c.deltas,
                                                   MsSub(Unwrap(ms), Unwrap(c.base_ms)))],
               is_delta |-> TRUE, idx |-> Len(c.deltas)]
    ELSE [col |-> [c EXCEPT !.raw = Append(c.raw, s)],
          is_delta |-> FALSE, idx |-> Len(c.raw)]

TsAddFromBase(p, s) == TsAddedFromBase(p.col, s, p.ms)

ts_add_from_base(col, s) == TsAddFromBase(parse_timestamp(col, s), s)

\* a column that keeps one copy of each raw string: a string already in raw
\* is not pushed again and its old index is returned
TsAddedInterned(c, s, ms) ==
    IF IsSome(ms)
    THEN IF c.base_ms = None
         THEN [col |-> [c EXCEPT !.base = Some(s), !.base_ms = ms,
                                 !.last_ms = Unwrap(ms),
                                 !.deltas = Append(c.deltas, MsZero)],
               is_delta |-> TRUE, idx |-> Len(c.deltas)]
         ELSE [col |-> [c EXCEPT !.last_ms = Unwrap(ms),
                                 !.deltas = Append(c.deltas, MsSub(Unwrap(ms), c.last_ms))],
               is_delta |-> TRUE, idx |-> Len(c.deltas)]
    ELSE IF \E k \in 1..Len(c.raw) : c.raw[k] = s
    THEN [col |-> c, is_delta |-> FALSE,
          idx |-> (CHOOSE k \in 1..Len(c.raw) : c.raw[k] = s) - 1]
    ELSE [col |-> [c EXCEPT !.raw = Append(c.raw, s)],
          is_delta |-> FALSE, idx |-> Len(c.raw)]

\* add once parse_timestamp has left the column c and given Some(ms) or None
TsAdded(c, s, ms) ==
    IF IsSome(ms)
    THEN IF c.base_ms = None
         THEN [col |-> [c EXCEPT !.base = Some(s), !.base_ms = ms,
                                 !.last_ms = Unwrap(ms),
                                 !.deltas = Append(c.deltas, MsZero)],
               is_delta |-> TRUE, idx |-> Len(c.deltas)]
         ELSE [col |-> [c EXCEPT !.last_ms = Unwrap(ms),
                                 !.deltas = Append(c.deltas, MsSub(Unwrap(ms), c.last_ms))],
               is_delta |-> TRUE, idx |-> Len(c.deltas)]
    ELSE [col |-> [c EXCEPT !.raw = Append(c.raw, s)],
          is_delta |-> FALSE, idx |-> Len(c.raw)]

\* add once parse_timestamp has returned p
TsAdd(p, s) == TsAdded(p.col, s, p.ms)

\* TimestampColumn::add(text): the column afterwards and (is_delta, index)
ts_add(col, s) == TsAdd(parse_timestamp(col, s), s)

\* the running sums of prepare_for_read from sum on
RECURSIVE PrefixSums(_, _)
PrefixSums(sum, deltas) ==
    IF deltas = <<>> THEN <<>>
    ELSE <<MsAdd(sum, Head(deltas))>> \o PrefixSums(MsAdd(sum, Head(deltas)), Tail(deltas))

\* TimestampColumn::prepare_for_read
prepare_for_read(col) ==
    PrefixSums(IF IsSome(col.base_ms) THEN Unwrap(col.base_ms) ELSE MsZero, col.deltas)

\* the date ymd and the second secs of the day in that format
FormatYmdHms(ymd, secs, sep) ==
    Pad(ymd[1], 4) \o <<"-">> \o Pad(ymd[2], 2) \o <<"-">> \o Pad(ymd[3], 2)
    \o <<sep>> \o Pad(secs \div 3600, 2) \o <<":">> \o Pad((secs % 3600) \div 60, 2)
    \o <<":">> \o Pad(secs % 60, 2)

\* format("%Y-%m-%d{sep}%H:%M:%S") of the local milliseconds ms
FormatDateTime(ms, sep) == FormatYmdHms(CivilFromDays(ms[1]), ms[2] \div 1000, sep)

\* format("%:z") of an offset in seconds
FormatOffset(off) ==
    LET a == IF off < 0 THEN -off ELSE off
    IN  <<IF off < 0 THEN "-" ELSE "+">> \o Pad(a \div 3600, 2) \o <<":">>
        \o Pad((a % 3600) \div 60, 2)

\* get_delta for a column that holds an offset: the time to print, the
\* separator and what follows the seconds
DeltaWithOffset(base_str, total_ms, off) ==
    IF EndsWith(base_str, <<"Z">>) THEN <<total_ms, "T", <<"Z">> >>
    ELSE IF Contains(base_str, <<"+">>)
            \/ (Contains(base_str, <<"-">>) /\ Len(base_str) > 19)
    THEN <<MsAdd(total_ms, MsNorm(0, off * 1000)), "T", FormatOffset(off)>>
    ELSE <<MsAdd(total_ms, MsNorm(0, off * 1000)), "T", <<>> >>

\* get_delta for a column without an offset
DeltaNaive(base_str, total_ms) ==
    <<total_ms, IF Contains(base_str, <<"T">>) THEN "T" ELSE " ", <<>> >>

DeltaFormat(f) == Some(FormatDateTime(f[1], f[2]) \o f[3])

\* TimestampColumn::get_delta(delta_idx, prefix_sums), delta_idx from 0
get_delta(col, delta_idx, prefix_sums) ==
    IF col.base = None \/ delta_idx >= Len(prefix_sums) THEN None
    ELSE DeltaFormat(IF IsSome(col.base_offset_secs)
                     THEN DeltaWithOffset(Unwrap(col.base), prefix_sums[delta_idx + 1],
                                          Unwrap(col.base_offset_secs))
                     ELSE DeltaNaive(Unwrap(col.base), prefix_sums[delta_idx + 1]))

(***************************************************************************)
(* Typed cells: parsing and formatting                                     *)
(***************************************************************************)
\* the runs of s between the separator characters of S
RECURSIVE SplitOn(_, _)
SplitOn(s, S) ==
    LET e == FindIn(s, 1, S)
    IN  IF e > Len(s) THEN <<s>>
        ELSE <<SubSeq(s, 1, e - 1)>> \o SplitOn(SubSeq(s, e + 1, Len(s)), S)

\* an octet as Ipv4Addr::from_str reads it: one to three digits, no leading
\* zero, at most 255
ValidOctet(o) ==
    /\ Len(o) >= 1 /\ Len(o) <= 3 /\ \A k \in 1..Len(o) : o[k] \in Digit
    /\ (Len(o) > 1 => o[1] # "0")
    /\ DecVal(o) <= 255

\* parse_ipv4(s): Some(the four octets of the u32) or None
parse_ipv4(s) ==
    LET os == SplitOn(s, {"."})
    IN  IF Len(os) = 4 /\ \A k \in 1..4 : ValidOctet(os[k])
        THEN Some([k \in 1..4 |-> DecVal(os[k])])
        ELSE None

\* format_ipv4(ip)
format_ipv4(ip) ==
    DecStr(ip[1]) \o <<".">> \o DecStr(ip[2]) \o <<".">> \o DecStr(ip[3]) \o <<".">> \o DecStr(ip[4])

\* the u128 zero that unwrap_or(0) substitutes
U128Zero == <<0, 0, 0, 0, 0, 0, 0, 0>>

\* the u32 zero that unwrap_or(0) substitutes
U32Zero == <<0, 0, 0, 0>>

\* s.chars().filter(|c| c.is_ascii_hexdigit()).collect()
RECURSIVE FilterHex(_)
FilterHex(s) ==
    IF s = <<>> THEN <<>>
    ELSE (IF Head(s) \in HexDigit THEN <<Head(s)>> ELSE <<>>) \o FilterHex(Tail(s))

\* parse_uuid(s): Some(the eight 16-bit groups of the u128) or None
parse_uuid(s) ==
    LET hex == FilterHex(s)
    IN  IF Len(hex) # 32 THEN None
        ELSE Some([k \in 1..8 |-> HexVal(SubSeq(hex, 4 * k - 3, 4 * k))])

\* format_uuid(uuid): "{:032x}" cut 8-4-4-4-12
format_uuid(u) ==
    Hex4(u[1]) \o Hex4(u[2]) \o <<"-">> \o Hex4(u[3]) \o <<"-">> \o Hex4(u[4]) \o <<"-">>
    \o Hex4(u[5]) \o <<"-">> \o Hex4(u[6]) \o Hex4(u[7]) \o Hex4(u[8])

\* the hex groups of s between colons (none for the empty string), or None
\* when one of them is not one to four hex digits
Ipv6GroupsOf(s) ==
    IF s = <<>> THEN Some(<<>>)
    ELSE LET gs == SplitOn(s, {":"})
         IN  IF \A k \in 1..Len(gs) : Len(gs[k]) >= 1 /\ Len(gs[k]) <= 4
                                      /\ \A j \in 1..Len(gs[k]) : gs[k][j] \in HexDigit
             THEN Some([k \in 1..Len(gs) |-> HexVal(gs[k])])
             ELSE None

\* position of the first "::" in s, 0 when there is none
DoubleColon(s) ==
    IF \E k \in 1..(Len(s) - 1) : s[k] = ":" /\ s[k + 1] = ":"
    THEN CHOOSE k \in 1..(Len(s) - 1) :
             /\ s[k] = ":" /\ s[k + 1] = ":"
             /\ \A j \in 1..(k - 1) : ~(s[j] = ":" /\ s[j + 1] = ":")
    ELSE 0

\* the address of the groups head before and tail after the "::" at dc (0
\* for none)
Ipv6Join(dc, head, tail) ==
    IF head = None \/ tail = None THEN None
    ELSE IF dc = 0
    THEN (IF Len(Unwrap(head)) = 8 THEN head ELSE None)
    ELSE IF Len(Unwrap(head)) + Len(Unwrap(tail)) <= 7
    THEN Some(Unwrap(head)
              \o [k \in 1..(8 - Len(Unwrap(head)) - Len(Unwrap(tail))) |-> 0]
              \o Unwrap(tail))
    ELSE None

\* the address of s, whose "::" is at position dc (0 for none)
Ipv6Around(s, dc) ==
    Ipv6Join(dc, Ipv6GroupsOf(IF dc = 0 THEN s ELSE SubSeq(s, 1, dc - 1)),
             Ipv6GroupsOf(IF dc = 0 THEN <<>> ELSE SubSeq(s, dc + 2, Len(s))))

\* parse_ipv6(s), Ipv6Addr::from_str: eight groups, or fewer around one "::"
\* that stands for at least one zero group; Some(groups) or None.  Strings that
\* end in a dotted IPv4 address are outside the inputs of the model.
parse_ipv6(s) == Ipv6Around(s, DoubleColon(s))

\* length of the run of zero groups that starts at group k
RECURSIVE ZeroRun(_, _)
ZeroRun(ip, k) == IF k <= 8 /\ ip[k] = 0 THEN 1 + ZeroRun(ip, k + 1) ELSE 0

\* groups a..b in lower-case hex without leading zeros, joined by ":"
RECURSIVE Ipv6Groups16(_, _, _)
Ipv6Groups16(ip, a, b) ==
    IF a > b THEN <<>>
    ELSE IF a = b THEN HexStr(ip[a])
    ELSE HexStr(ip[a]) \o <<":">> \o Ipv6Groups16(ip, a + 1, b)

\* format_ipv6(ip): Display of Ipv6Addr, which writes an IPv4-mapped address as
\* ::ffff:a.b.c.d and otherwise compresses the first longest run of two or
\* more zero groups to "::"
format_ipv6(ip) ==
    IF \A k \in 1..5 : ip[k] = 0 /\ ip[6] = 65535
    THEN <<":", ":", "f", "f", "f", "f", ":">>
         \o format_ipv4(<<ip[7] \div 256, ip[7] % 256, ip[8] \div 256, ip[8] % 256>>)
    ELSE LET longest == CHOOSE k \in 1..8 :
                            /\ \A j \in 1..8 : ZeroRun(ip, j) <= ZeroRun(ip, k)
                            /\ \A j \in 1..(k - 1) : ZeroRun(ip, j) < ZeroRun(ip, k)
             n == ZeroRun(ip, longest)
         IN  IF n > 1
             THEN Ipv6Groups16(ip, 1, longest - 1) \o <<":", ":">>
                  \o Ipv6Groups16(ip, longest + n, 8)
             ELSE Ipv6Groups16(ip, 1, 8)

\* an f64 that a short decimal literal denotes: <<m, e>> stands for m / 10^e,
\* with e = 0 or m not divisible by 10
RECURSIVE NumNorm(_, _)
NumNorm(m, e) == IF e > 0 /\ m % 10 = 0 THEN NumNorm(m \div 10, e - 1) ELSE <<m, e>>

F64Zero == <<0, 0>>

\* text.parse::<f64>() for digits with an optional fraction: Some(value) or
\* None
parse_f64(s) ==
    LET d == RunEnd(s, 1, Digit)
    IN  IF d = 1 THEN None
        ELSE IF d = Len(s) + 1 THEN Some(NumNorm(DecVal(s), 0))
        ELSE IF s[d] = "." /\ d < Len(s) /\ RunEnd(s, d + 1, Digit) = Len(s) + 1
        THEN Some(NumNorm(DecVal(SubSeq(s, 1, d - 1) \o SubSeq(s, d + 1, Len(s))), Len(s) - d))
        ELSE None

\* a format that prints an integral value as f64's Debug does, with .0
format_number_debug(n) ==
    IF n[2] = 0 THEN DecStr(n[1]) \o <<".", "0">>
    ELSE DecStr(n[1] \div Pow10(n[2])) \o <<".">> \o Pad(n[1] % Pow10(n[2]), n[2])

\* format_number(n): an integral value prints as i64, any other as f64
format_number(n) ==
    IF n[2] = 0 THEN DecStr(n[1])
    ELSE DecStr(n[1] \div Pow10(n[2])) \o <<".">> \o Pad(n[1] % Pow10(n[2]), n[2])

\* parse_date_to_days(s): of DATE_FORMATS only "%Y-%m-%d" can read a string
\* shaped YYYY-MM-DD; days before 1970 are refused
parse_date_to_days(s) ==
    IF DateShape(s, 1) /\ Len(s) = 10
       /\ ValidDate(DecVal(SubSeq(s, 1, 4)), DecVal(SubSeq(s, 6, 7)), DecVal(SubSeq(s, 9, 10)))
       /\ DaysFromCivil(DecVal(SubSeq(s, 1, 4)), DecVal(SubSeq(s, 6, 7)), DecVal(SubSeq(s, 9, 10))) >= 0
    THEN Some(DaysFromCivil(DecVal(SubSeq(s, 1, 4)), DecVal(SubSeq(s, 6, 7)), DecVal(SubSeq(s, 9, 10))))
    ELSE None

\* format!("{:04}-{:02}-{:02}", y, m, d)
FormatYmd(ymd) == Pad(ymd[1], 4) \o <<"-">> \o Pad(ymd[2], 2) \o <<"-">> \o Pad(ymd[3], 2)

\* format_date_from_days(days)
format_date_from_days(days) == FormatYmd(CivilFromDays(days))

\* parse_time_to_ms(s): of TIME_FORMATS "%H:%M:%S%.f" reads every valid string
\* shaped HH:MM:SS[.f]; the later formats read nothing it refuses
parse_time_to_ms(s) ==
    IF TimeShape(s, 1) /\ FractionEnd(s, 9) = Len(s) + 1
       /\ DecVal(SubSeq(s, 1, 2)) <= 23 /\ DecVal(SubSeq(s, 4, 5)) <= 59
       /\ DecVal(SubSeq(s, 7, 8)) <= 60
    THEN LET ms == DecVal(SubSeq(s, 1, 2)) * 3600000 + DecVal(SubSeq(s, 4, 5)) * 60000
                   + DecVal(SubSeq(s, 7, 8)) * 1000
                   + FracMs(IF Len(s) > 9 THEN SubSeq(s, 10, Len(s)) ELSE <<>>)
         IN  IF ms <= MsPerDay THEN Some(ms) ELSE None
    ELSE None

\* format_time_from_ms(ms)
format_time_from_ms(ms) ==
    LET total_secs == ms \div 1000
        hms == Pad(total_secs \div 3600, 2) \o <<":">> \o Pad((total_secs % 3600) \div 60, 2)
               \o <<":">> \o Pad(total_secs % 60, 2)
    IN  IF ms % 1000 > 0 THEN hms \o <<".">> \o Pad(ms % 1000, 3) ELSE hms

(***************************************************************************)
(* ColumnarPayload                                                         *)
(***************************************************************************)
\* SkeletonToken::Text(s) and SkeletonToken::Ref(idx)
TokText(s) == [ref |-> FALSE, text |-> s, idx |-> 0]

TokRef(i) == [ref |-> TRUE, text |-> <<>>, idx |-> i]

\* the longest digit string the bounded texts put between braces; every such
\* string parses as u32
MaxRefDigits == 9

\* ColumnarPayload::parse_skeleton from character i on, with the tokens and
\* the text collected so far
RECURSIVE ParseSkeletonFrom(_, _, _, _)
ParseSkeletonFrom(s, i, tokens, current_text) ==
    IF i > Len(s)
    THEN IF current_text # <<>> THEN Append(tokens, TokText(current_text)) ELSE tokens
    ELSE IF s[i] = "{"
    THEN LET d == RunEnd(s, i + 1, Digit)
             num_str == SubSeq(s, i + 1, d - 1)
             after == IF d <= Len(s) /\ s[d] = "}" THEN d + 1 ELSE d
         IN  IF Len(num_str) >= 1 /\ Len(num_str) <= MaxRefDigits
             THEN ParseSkeletonFrom(s, after,
                      (IF current_text # <<>> THEN Append(tokens, TokText(current_text))
                       ELSE tokens) \o <<TokRef(DecVal(num_str))>>,
                      <<>>)
             ELSE ParseSkeletonFrom(s, after, tokens, current_text \o <<"{">> \o num_str)
    ELSE ParseSkeletonFrom(s, i + 1, tokens, Append(current_text, s[i]))

parse_skeleton(s) == ParseSkeletonFrom(s, 1, <<>>, <<>>)

\* ColumnarPayload::new(skeleton)
ColumnarPayloadNew(skel) ==
    [skeleton_tokens |-> parse_skeleton(skel), placeholder_map |-> <<>>,
     timestamps |-> TimestampColumnDefault,
     ipv4_addrs |-> <<>>, ipv6_addrs |-> <<>>, log_levels |-> <<>>, numbers |-> <<>>,
     uuids |-> <<>>, emails |-> <<>>, urls |-> <<>>, paths |-> <<>>, date_days |-> <<>>,
     dates |-> <<>>, time_ms |-> <<>>, times |-> <<>>, hex_values |-> <<>>,
     others |-> <<>>]

\* Option::unwrap_or
UnwrapOr(o, d) == IF IsSome(o) THEN Unwrap(o) ELSE d

\* a timestamp branch that tags every entry as delta-encoded
AddedTimestampAsDelta(p, r) ==
    [p EXCEPT !.timestamps = r.col, !.placeholder_map = Append(@, <<0, r.idx>>)]

\* the timestamp branch of add_match, r being what TimestampColumn::add gave
AddedTimestamp(p, r) ==
    [p EXCEPT !.timestamps = r.col,
              !.placeholder_map = Append(@, <<IF r.is_delta THEN 0 ELSE 13, r.idx>>)]

\* an add_match that takes the index after the push: the new length instead
\* of the new length minus one
add_match_len_after(p, pattern_type, t) ==
    LET entry(col_type, col) == Append(p.placeholder_map, <<col_type, Len(col) + 1>>)
    IN  CASE pattern_type = "Timestamp" ->
                AddedTimestamp(p, ts_add(p.timestamps, t))
          [] pattern_type = "IPv4" ->
                [p EXCEPT !.ipv4_addrs = Append(@, UnwrapOr(parse_ipv4(t), U32Zero)),
                          !.placeholder_map = entry(1, p.ipv4_addrs)]
          [] pattern_type = "LogLevel" ->
                [p EXCEPT !.log_levels = Append(@, parse_level(t)),
                          !.placeholder_map = entry(2, p.log_levels)]
          [] pattern_type = "Number" ->
                [p EXCEPT !.numbers = Append(@, UnwrapOr(parse_f64(t), F64Zero)),
                          !.placeholder_map = entry(3, p.numbers)]
          [] pattern_type = "UUID" ->
                [p EXCEPT !.uuids = Append(@, UnwrapOr(parse_uuid(t), U128Zero)),
                          !.placeholder_map = entry(4, p.uuids)]
          [] pattern_type = "Email" ->
                [p EXCEPT !.emails = Append(@, t), !.placeholder_map = entry(5, p.emails)]
          [] pattern_type = "URL" ->
                [p EXCEPT !.urls = Append(@, t), !.placeholder_map = entry(6, p.urls)]
          [] pattern_type = "Path" ->
                [p EXCEPT !.paths = Append(@, t), !.placeholder_map = entry(7, p.paths)]
          [] pattern_type = "Date" ->
                IF IsSome(parse_date_to_days(t))
                THEN [p EXCEPT !.date_days = Append(@, Unwrap(parse_date_to_days(t))),
                               !.placeholder_map = entry(8, p.date_days)]
                ELSE [p EXCEPT !.dates = Append(@, t),
                               !.placeholder_map = entry(14, p.dates)]
          [] pattern_type = "Time" ->
                IF IsSome(parse_time_to_ms(t))
                THEN [p EXCEPT !.time_ms = Append(@, Unwrap(parse_time_to_ms(t))),
                               !.placeholder_map = entry(9, p.time_ms)]
                ELSE [p EXCEPT !.times = Append(@, t),
                               !.placeholder_map = entry(15, p.times)]
          [] pattern_type = "Hex" ->
                [p EXCEPT !.hex_values = Append(@, t),
                          !.placeholder_map = entry(10, p.hex_values)]
          [] pattern_type = "IPv6" ->
                IF IsSome(parse_ipv6(t))
                THEN [p EXCEPT !.ipv6_addrs = Append(@, Unwrap(parse_ipv6(t))),
                               !.placeholder_map = entry(12, p.ipv6_addrs)]
                ELSE [p EXCEPT !.others = Append(@, t),
                               !.placeholder_map = entry(11, p.others)]
          [] OTHER ->
                [p EXCEPT !.others = Append(@, t), !.placeholder_map = entry(11, p.others)]

\* ColumnarPayload::add_match(pattern_type, text): the payload afterwards
add_match(p, pattern_type, t) ==
    LET entry(col_type, col) == Append(p.placeholder_map, <<col_type, Len(col)>>)
    IN  CASE pattern_type = "Timestamp" ->
                AddedTimestamp(p, ts_add(p.timestamps, t))
          [] pattern_type = "IPv4" ->
                [p EXCEPT !.ipv4_addrs = Append(@, UnwrapOr(parse_ipv4(t), U32Zero)),
                          !.placeholder_map = entry(1, p.ipv4_addrs)]
          [] pattern_type = "LogLevel" ->
                [p EXCEPT !.log_levels = Append(@, parse_level(t)),
                          !.placeholder_map = entry(2, p.log_levels)]
          [] pattern_type = "Number" ->
                [p EXCEPT !.numbers = Append(@, UnwrapOr(parse_f64(t), F64Zero)),
                          !.placeholder_map = entry(3, p.numbers)]
          [] pattern_type = "UUID" ->
                [p EXCEPT !.uuids = Append(@, UnwrapOr(parse_uuid(t), U128Zero)),
                          !.placeholder_map = entry(4, p.uuids)]
          [] pattern_type = "Email" ->
                [p EXCEPT !.emails = Append(@, t), !.placeholder_map = entry(5, p.emails)]
          [] pattern_type = "URL" ->
                [p EXCEPT !.urls = Append(@, t), !.placeholder_map = entry(6, p.urls)]
          [] pattern_type = "Path" ->
                [p EXCEPT !.paths = Append(@, t), !.placeholder_map = entry(7, p.paths)]
          [] pattern_type = "Date" ->
                IF IsSome(parse_date_to_days(t))
                THEN [p EXCEPT !.date_days = Append(@, Unwrap(parse_date_to_days(t))),
                               !.placeholder_map = entry(8, p.date_days)]
                ELSE [p EXCEPT !.dates = Append(@, t),
                               !.placeholder_map = entry(14, p.dates)]
          [] pattern_type = "Time" ->
                IF IsSome(parse_time_to_ms(t))
                THEN [p EXCEPT !.time_ms = Append(@, Unwrap(parse_time_to_ms(t))),
                               !.placeholder_map = entry(9, p.time_ms)]
                ELSE [p EXCEPT !.times = Append(@, t),
                               !.placeholder_map = entry(15, p.times)]
          [] pattern_type = "Hex" ->
                [p EXCEPT !.hex_values = Append(@, t),
                          !.placeholder_map = entry(10, p.hex_values)]
          [] pattern_type = "IPv6" ->
                IF IsSome(parse_ipv6(t))
                THEN [p EXCEPT !.ipv6_addrs = Append(@, Unwrap(parse_ipv6(t))),
                               !.placeholder_map = entry(12, p.ipv6_addrs)]
                ELSE [p EXCEPT !.others = Append(@, t),
                               !.placeholder_map = entry(11, p.others)]
          [] OTHER ->
                [p EXCEPT !.others = Append(@, t), !.placeholder_map = entry(11, p.others)]

\* Vec::get(idx) followed by a conversion f: None past the end of the column
GetCell(col, idx, f(_)) == IF idx < Len(col) THEN Some(f(col[idx + 1])) ELSE None

Same(x) == x

\* ColumnarPayload::get_value_fast(placeholder_idx, ts_prefix_sums)
get_value_fast(p, placeholder_idx, ts_prefix_sums) ==
    IF placeholder_idx >= Len(p.placeholder_map) THEN None
    ELSE LET col_type == p.placeholder_map[placeholder_idx + 1][1]
             idx == p.placeholder_map[placeholder_idx + 1][2]
         IN  CASE col_type = 0 -> get_delta(p.timestamps, idx, ts_prefix_sums)
               [] col_type = 1 -> GetCell(p.ipv4_addrs, idx, format_ipv4)
               [] col_type = 2 -> GetCell(p.log_levels, idx, level_to_str)
               [] col_type = 3 -> GetCell(p.numbers, idx, format_number)
               [] col_type = 4 -> GetCell(p.uuids, idx, format_uuid)
               [] col_type = 5 -> GetCell(p.emails, idx, Same)
               [] col_type = 6 -> GetCell(p.urls, idx, Same)
               [] col_type = 7 -> GetCell(p.paths, idx, Same)
               [] col_type = 8 -> GetCell(p.date_days, idx, format_date_from_days)
               [] col_type = 9 -> GetCell(p.time_ms, idx, format_time_from_ms)
               [] col_type = 10 -> GetCell(p.hex_values, idx, Same)
               [] col_type = 11 -> GetCell(p.others, idx, Same)
               [] col_type = 12 -> GetCell(p.ipv6_addrs, idx, format_ipv6)
               [] col_type = 13 -> GetCell(p.timestamps.raw, idx, Same)
               [] col_type = 14 -> GetCell(p.dates, idx, Same)
               [] col_type = 15 -> GetCell(p.times, idx, Same)
               [] OTHER -> None

\* ColumnarPayload::get_value(placeholder_idx)
get_value(p, placeholder_idx) ==
    get_value_fast(p, placeholder_idx, prepare_for_read(p.timestamps))

\* what restore pushes for a token, value being get_value_fast of a Ref
TokenValue(token, value) ==
    IF ~token.ref THEN token.text
    ELSE IF IsSome(value) THEN Unwrap(value) ELSE <<>>

\* the loop of ColumnarPayload::restore over the tokens from k on
RECURSIVE RestoreTokens(_, _, _)
RestoreTokens(p, k, sums) ==
    IF k > Len(p.skeleton_tokens) THEN <<>>
    ELSE TokenValue(p.skeleton_tokens[k],
                    get_value_fast(p, p.skeleton_tokens[k].idx, sums))
         \o RestoreTokens(p, k + 1, sums)

\* ColumnarPayload::restore
restore(p) == RestoreTokens(p, 1, prepare_for_read(p.timestamps))

\* the loop of ColumnarEncoder::encode over the matches from k on
RECURSIVE AddMatches(_, _, _)
AddMatches(p, ms, k) ==
    IF k > Len(ms) THEN p
    ELSE AddMatches(add_match(p, ms[k].pattern_type, ms[k].matched_text), ms, k + 1)

\* an encoder whose loop over the matches leaves the first match out
encode_from_second(t) ==
    AddMatches(ColumnarPayloadNew(extract_skeleton(t)), find_matches(t), 2)

\* ColumnarEncoder::encode(text)
encode(t) == AddMatches(ColumnarPayloadNew(extract_skeleton(t)), find_matches(t), 1)

(***************************************************************************)
(* Format v3 container                                                     *)
(*                                                                         *)
(* A file is a sequence of cells.  A cell of the magic, version, header or *)
(* directory is [b |-> byte, z |-> <<>>].  The bytes zstd produces are not *)
(* modelled: a frame of n bytes is n cells with b = -1, the first of which *)
(* carries in z what the frame decodes to.                                 *)
(***************************************************************************)
\* b"ALICETXT"
ALICE_TEXT_MAGIC == <<65, 76, 73, 67, 69, 84, 88, 84>>

FORMAT_V3_VERSION == <<3, 0>>

\* FormatV3Header::SIZE
HeaderSIZE == 32

\* ColumnEntry::SIZE
EntrySIZE == 21

\* ColumnType as u8, in the order of the enum
Skeleton == 0
Timestamps == 1
IPv4 == 2
IPv6 == 3
LogLevels == 4
Numbers == 5
UUIDs == 6
Emails == 7
URLs == 8
Paths == 9
DateDays == 10
DatesRaw == 11
TimeMs == 12
TimesRaw == 13
HexValues == 14
Others == 15
PlaceholderMap == 16
TimestampsRaw == 17

\* ColumnType::from_u8(v)
ColumnTypeFromU8(v) == IF v >= 0 /\ v <= 17 THEN Some(v) ELSE None

\* CompressionLevel as u8
Levels == {0, 1, 2}

\* CompressionLevel::zstd_level
zstd_level(lv) == CASE lv = 0 -> 3 [] lv = 1 -> 10 [] OTHER -> 19

\* n.to_le_bytes() in w bytes
RECURSIVE ToLe(_, _)
ToLe(n, w) == IF w = 0 THEN <<>> ELSE <<n % 256>> \o ToLe(n \div 256, w - 1)

\* uN::from_le_bytes(bytes)
RECURSIVE FromLe(_)
FromLe(bytes) == IF bytes = <<>> THEN 0 ELSE Head(bytes) + 256 * FromLe(Tail(bytes))

\* bincode sizes: a length or Option tag before the content, fixed-width
\* integers, a four-byte variant index
StringSize(str) == 8 + Len(str)

RECURSIVE StringsSize(_)
StringsSize(v) == IF v = <<>> THEN 0 ELSE StringSize(Head(v)) + StringsSize(Tail(v))

VecStringSize(v) == 8 + StringsSize(v)

TokenSize(tok) == 4 + (IF tok.ref THEN 4 ELSE StringSize(tok.text))

RECURSIVE TokensSize(_)
TokensSize(v) == IF v = <<>> THEN 0 ELSE TokenSize(Head(v)) + TokensSize(Tail(v))

OptionSize(o, n) == 1 + (IF IsSome(o) THEN n ELSE 0)

TimestampColumnSize(c) ==
    OptionSize(c.base, IF IsSome(c.base) THEN StringSize(Unwrap(c.base)) ELSE 0)
    + OptionSize(c.base_ms, 8) + 8 + 8 * Len(c.deltas) + VecStringSize(c.raw)
    + OptionSize(c.cached_format_idx, 12) + 8 + OptionSize(c.base_offset_secs, 4)

\* bincode::serialize(value): the value and the number of bytes it takes
Bincode(value, size) == [v |-> value, n |-> size]

\* triples whose count for the timestamp column is that of all the timestamps,
\* the raw ones included
ColumnBytesAllStamps(p) ==
    << <<Skeleton, Bincode(p.skeleton_tokens, 8 + TokensSize(p.skeleton_tokens)),
         Len(p.skeleton_tokens)>>,
       <<PlaceholderMap, Bincode(p.placeholder_map, 8 + 5 * Len(p.placeholder_map)),
         Len(p.placeholder_map)>>,
       <<Timestamps, Bincode(p.timestamps, TimestampColumnSize(p.timestamps)),
         Len(p.timestamps.deltas) + Len(p.timestamps.raw)>>,
       <<IPv4, Bincode(p.ipv4_addrs, 8 + 4 * Len(p.ipv4_addrs)), Len(p.ipv4_addrs)>>,
       <<IPv6, Bincode(p.ipv6_addrs, 8 + 16 * Len(p.ipv6_addrs)), Len(p.ipv6_addrs)>>,
       <<LogLevels, Bincode(p.log_levels, 8 + Len(p.log_levels)), Len(p.log_levels)>>,
       <<Numbers, Bincode(p.numbers, 8 + 8 * Len(p.numbers)), Len(p.numbers)>>,
       <<UUIDs, Bincode(p.uuids, 8 + 16 * Len(p.uuids)), Len(p.uuids)>>,
       <<Emails, Bincode(p.emails, VecStringSize(p.emails)), Len(p.emails)>>,
       <<URLs, Bincode(p.urls, VecStringSize(p.urls)), Len(p.urls)>>,
       <<Paths, Bincode(p.paths, VecStringSize(p.paths)), Len(p.paths)>>,
       <<DateDays, Bincode(p.date_days, 8 + 4 * Len(p.date_days)), Len(p.date_days)>>,
       <<DatesRaw, Bincode(p.dates, VecStringSize(p.dates)), Len(p.dates)>>,
       <<TimeMs, Bincode(p.time_ms, 8 + 4 * Len(p.time_ms)), Len(p.time_ms)>>,
       <<TimesRaw, Bincode(p.times, VecStringSize(p.times)), Len(p.times)>>,
       <<HexValues, Bincode(p.hex_values, VecStringSize(p.hex_values)), Len(p.hex_values)>>,
       <<Others, Bincode(p.others, VecStringSize(p.others)), Len(p.others)>>,
       <<TimestampsRaw, Bincode(p.timestamps.raw, VecStringSize(p.timestamps.raw)),
         Len(p.timestamps.raw)>> >>

\* the (col_type, bincode bytes, count) triples of compress, in its order
ColumnBytes(p) ==
    << <<Skeleton, Bincode(p.skeleton_tokens, 8 + TokensSize(p.skeleton_tokens)),
         Len(p.skeleton_tokens)>>,
       <<PlaceholderMap, Bincode(p.placeholder_map, 8 + 5 * Len(p.placeholder_map)),
         Len(p.placeholder_map)>>,
       <<Timestamps, Bincode(p.timestamps, TimestampColumnSize(p.timestamps)),
         Len(p.timestamps.deltas)>>,
       <<IPv4, Bincode(p.ipv4_addrs, 8 + 4 * Len(p.ipv4_addrs)), Len(p.ipv4_addrs)>>,
       <<IPv6, Bincode(p.ipv6_addrs, 8 + 16 * Len(p.ipv6_addrs)), Len(p.ipv6_addrs)>>,
       <<LogLevels, Bincode(p.log_levels, 8 + Len(p.log_levels)), Len(p.log_levels)>>,
       <<Numbers, Bincode(p.numbers, 8 + 8 * Len(p.numbers)), Len(p.numbers)>>,
       <<UUIDs, Bincode(p.uuids, 8 + 16 * Len(p.uuids)), Len(p.uuids)>>,
       <<Emails, Bincode(p.emails, VecStringSize(p.emails)), Len(p.emails)>>,
       <<URLs, Bincode(p.urls, VecStringSize(p.urls)), Len(p.urls)>>,
       <<Paths, Bincode(p.paths, VecStringSize(p.paths)), Len(p.paths)>>,
       <<DateDays, Bincode(p.date_days, 8 + 4 * Len(p.date_days)), Len(p.date_days)>>,
       <<DatesRaw, Bincode(p.dates, VecStringSize(p.dates)), Len(p.dates)>>,
       <<TimeMs, Bincode(p.time_ms, 8 + 4 * Len(p.time_ms)), Len(p.time_ms)>>,
       <<TimesRaw, Bincode(p.times, VecStringSize(p.times)), Len(p.times)>>,
       <<HexValues, Bincode(p.hex_values, VecStringSize(p.hex_values)), Len(p.hex_values)>>,
       <<Others, Bincode(p.others, VecStringSize(p.others)), Len(p.others)>>,
       <<TimestampsRaw, Bincode(p.timestamps.raw, VecStringSize(p.timestamps.raw)),
         Len(p.timestamps.raw)>> >>

\* a plain byte of the file
ByteCell(b) == [b |-> b, z |-> <<>>]

Bytes(bs) == [k \in 1..Len(bs) |-> ByteCell(bs[k])]

\* zstd::stream::encode_all(data, level): one frame, the data with the nine
\* bytes of zstd's magic, frame header and block header around it
ZstdEncode(data, zl) ==
    LET n == data.n + 9
    IN  [k \in 1..n |-> [b |-> -1,
                         z |-> IF k = 1 THEN <<[data |-> data, len |-> n, level |-> zl]>>
                               ELSE <<>>]]

\* zstd::stream::decode_all(cells) from position k on: the contents of the
\* frames in order, or an error when the cells are not complete frames
RECURSIVE ZstdDecodeFrom(_, _)
ZstdDecodeFrom(cells, k) ==
    IF k > Len(cells) THEN [ok |-> TRUE, data |-> <<>>]
    ELSE IF cells[k].z = <<>> \/ k + cells[k].z[1].len - 1 > Len(cells)
    THEN [ok |-> FALSE, data |-> <<>>]
    ELSE LET rest == ZstdDecodeFrom(cells, k + cells[k].z[1].len)
         IN  [ok |-> rest.ok, data |-> <<cells[k].z[1].data>> \o rest.data]

\* the closure add_column of compress over the triples from k on
RECURSIVE AddColumns(_, _, _)
AddColumns(cols, k, zl) ==
    IF k > Len(cols) THEN <<>>
    ELSE (IF cols[k][2].n > 0 \/ cols[k][1] = Skeleton \/ cols[k][1] = PlaceholderMap
          THEN <<[col_type |-> cols[k][1], compressed |-> ZstdEncode(cols[k][2], zl),
                  count |-> cols[k][3]]>>
          ELSE <<>>)
         \o AddColumns(cols, k + 1, zl)

\* ColumnEntry::to_bytes
EntryToBytes(e) ==
    <<e.col_type>> \o ToLe(e.offset, 8) \o ToLe(e.compressed_size, 4)
    \o ToLe(e.uncompressed_size, 4) \o ToLe(e.row_count, 4)

\* ColumnEntry::from_bytes on 21 bytes
EntryFromBytes(bytes) ==
    IF ColumnTypeFromU8(bytes[1]) = None
    THEN [ok |-> FALSE, err |-> "DecompressionError", entry |-> <<>>]
    ELSE [ok |-> TRUE, err |-> "",
          entry |-> <<[col_type |-> bytes[1], offset |-> FromLe(SubSeq(bytes, 2, 9)),
                       compressed_size |-> FromLe(SubSeq(bytes, 10, 13)),
                       uncompressed_size |-> FromLe(SubSeq(bytes, 14, 17)),
                       row_count |-> FromLe(SubSeq(bytes, 18, 21))]>>]

\* FormatV3Header::to_bytes
HeaderToBytes(h) ==
    ToLe(h.original_length, 8) \o <<h.compression_level>> \o ToLe(h.column_count, 2)
    \o ToLe(h.row_count, 8) \o h.reserved

\* FormatV3Header::from_bytes on 32 bytes
HeaderFromBytes(bytes) ==
    [original_length |-> FromLe(SubSeq(bytes, 1, 8)), compression_level |-> bytes[9],
     column_count |-> FromLe(SubSeq(bytes, 10, 11)),
     row_count |-> FromLe(SubSeq(bytes, 12, 19)), reserved |-> SubSeq(bytes, 20, 32)]

\* a directory whose offset is not moved past a column once it is entered
EntriesStuck(column_data, k, current_offset) ==
    [i \in 1..(Len(column_data) - k + 1) |->
        [col_type |-> column_data[k + i - 1].col_type, offset |-> current_offset,
         compressed_size |-> Len(column_data[k + i - 1].compressed),
         uncompressed_size |-> 0, row_count |-> column_data[k + i - 1].count]]

\* the directory entries of compress for the compressed columns from k on,
\* the first of them at current_offset
RECURSIVE Entries(_, _, _)
Entries(column_data, k, current_offset) ==
    IF k > Len(column_data) THEN <<>>
    ELSE <<[col_type |-> column_data[k].col_type, offset |-> current_offset,
            compressed_size |-> Len(column_data[k].compressed), uncompressed_size |-> 0,
            row_count |-> column_data[k].count]>>
         \o Entries(column_data, k + 1, current_offset + Len(column_data[k].compressed))

\* the blobs of the compressed columns from k on, one after the other
RECURSIVE Blobs(_, _)
Blobs(column_data, k) ==
    IF k > Len(column_data) THEN <<>>
    ELSE column_data[k].compressed \o Blobs(column_data, k + 1)

\* the directory bytes of the entries from k on
RECURSIVE DirectoryBytes(_, _)
DirectoryBytes(entries, k) ==
    IF k > Len(entries) THEN <<>>
    ELSE EntryToBytes(entries[k]) \o DirectoryBytes(entries, k + 1)

\* text.lines().count()
RECURSIVE CountChar(_, _)
CountChar(s, c) ==
    IF s = <<>> THEN 0 ELSE (IF Head(s) = c THEN 1 ELSE 0) + CountChar(Tail(s), c)

\* a count of the pieces between newlines, the empty piece after a last
\* newline included
LinesCountSplit(t) == IF t = <<>> THEN 0 ELSE CountChar(t, "\n") + 1

LinesCount(t) == CountChar(t, "\n") + (IF t # <<>> /\ t[Len(t)] # "\n" THEN 1 ELSE 0)

\* FormatV3Writer::compress after the call of encode: the container of a
\* payload p
\* the output of compress: magic, version, header, directory, column data
WriteOutput(column_data, entries, original_length, row_count, lv) ==
    Bytes(ALICE_TEXT_MAGIC \o FORMAT_V3_VERSION
          \o HeaderToBytes([original_length |-> original_length,
                            compression_level |-> lv,
                            column_count |-> Len(entries), row_count |-> row_count,
                            reserved |-> [k \in 1..13 |-> 0]])
          \o DirectoryBytes(entries, 1))
    \o Blobs(column_data, 1)

\* compress once the columns are compressed: data_start is
\* 8 + 2 + FormatV3Header::SIZE + column_data.len() * ColumnEntry::SIZE
WriteColumns(column_data, original_length, row_count, lv) ==
    WriteOutput(column_data,
                Entries(column_data, 1, 8 + 2 + HeaderSIZE + Len(column_data) * EntrySIZE),
                original_length, row_count, lv)

\* compress from the encoded payload on
WriteContainer(p, original_length, row_count, lv) ==
    WriteColumns(AddColumns(ColumnBytes(p), 1, zstd_level(lv)),
                 original_length, row_count, lv)

\* FormatV3Writer::new(level).compress(text)
compress(t, lv) == WriteContainer(encode(t), Len(t), LinesCount(t), lv)

\* Cursor::read_exact of n bytes at position pos (from 0)
CanRead(data, pos, n) == pos + n <= Len(data)

ReadCells(data, pos, n) == SubSeq(data, pos + 1, pos + n)

ReadBytes(data, pos, n) == [k \in 1..n |-> data[pos + k].b]

\* a failed Result with the variant of ALICETextError
Err(e) == [ok |-> FALSE, err |-> e]

\* a directory loop that stops at the end of the file with what it has read
RECURSIVE ReadEntriesLenient(_, _, _, _)
ReadEntriesLenient(data, pos, left, columns) ==
    IF left = 0 \/ ~CanRead(data, pos, EntrySIZE)
    THEN [ok |-> TRUE, err |-> "", columns |-> columns]
    ELSE LET e == EntryFromBytes(ReadBytes(data, pos, EntrySIZE))
         IN  IF ~e.ok THEN [ok |-> FALSE, err |-> e.err, columns |-> <<>>]
             ELSE ReadEntriesLenient(data, pos + EntrySIZE, left - 1, columns \o e.entry)

\* the directory loop of read_from: `left` entries from position pos on
RECURSIVE ReadEntries(_, _, _, _)
ReadEntries(data, pos, left, columns) ==
    IF left = 0 THEN [ok |-> TRUE, err |-> "", columns |-> columns]
    ELSE IF ~CanRead(data, pos, EntrySIZE) THEN [ok |-> FALSE, err |-> "Io", columns |-> <<>>]
    ELSE LET e == EntryFromBytes(ReadBytes(data, pos, EntrySIZE))
         IN  IF ~e.ok THEN [ok |-> FALSE, err |-> e.err, columns |-> <<>>]
             ELSE ReadEntries(data, pos + EntrySIZE, left - 1, columns \o e.entry)

\* a reader that takes the written version only, minor byte included
VersionExact(version) == version = FORMAT_V3_VERSION

\* the version test of read_from: the major byte alone
VersionSupported(version) == version[1] = 3

\* an Err of read_from
NoMeta(e) == [ok |-> FALSE, err |-> e, header |-> <<>>, columns |-> <<>>, pos |-> 0]

\* the end of read_from, dir being what the directory loop gave
MetaOf(header, dir) ==
    IF ~dir.ok THEN NoMeta(dir.err)
    ELSE [ok |-> TRUE, err |-> "", header |-> <<header>>, columns |-> dir.columns,
          pos |-> 10 + HeaderSIZE + EntrySIZE * header.column_count]

\* read_from after the header is read
ReadDirectory(data, header) ==
    MetaOf(header, ReadEntries(data, 10 + HeaderSIZE, header.column_count, <<>>))

\* FormatV3Metadata::read_from(reader): Ok(header, columns) or Err, and the
\* position the reader is left at after a success
read_from(data) ==
    IF ~CanRead(data, 0, 8) THEN NoMeta("Io")
    ELSE IF ReadBytes(data, 0, 8) # ALICE_TEXT_MAGIC THEN NoMeta("InvalidMagic")
    ELSE IF ~CanRead(data, 8, 2) THEN NoMeta("Io")
    ELSE IF ~VersionSupported(ReadBytes(data, 8, 2)) THEN NoMeta("InvalidVersion")
    ELSE IF ~CanRead(data, 10, HeaderSIZE) THEN NoMeta("Io")
    ELSE ReadDirectory(data, HeaderFromBytes(ReadBytes(data, 10, HeaderSIZE)))

\* FormatV3Metadata::get_column(col_type): the first entry of that type
GetColumn(columns, col_type) ==
    IF \E k \in 1..Len(columns) : columns[k].col_type = col_type
    THEN Some(columns[CHOOSE k \in 1..Len(columns) :
                  /\ columns[k].col_type = col_type
                  /\ \A j \in 1..(k - 1) : columns[j].col_type # col_type])
    ELSE None

\* seek to the entry, read_exact its bytes, zstd decode_all and
\* bincode::deserialize: Ok(value) or Err
ReadBlob(data, entry) ==
    IF ~CanRead(data, entry.offset, entry.compressed_size)
    THEN [ok |-> FALSE, err |-> "Io", value |-> <<>>]
    ELSE LET d == ZstdDecodeFrom(ReadCells(data, entry.offset, entry.compressed_size), 1)
         IN  IF ~d.ok \/ d.data = <<>>
             THEN [ok |-> FALSE, err |-> "DecompressionError", value |-> <<>>]
             ELSE [ok |-> TRUE, err |-> "", value |-> <<d.data[1].v>>]

\* the payload read_all_columns starts from; its field timestamps_raw is the
\* local of that name
EmptyColumns ==
    [skeleton_tokens |-> <<>>, placeholder_map |-> <<>>,
     timestamps |-> TimestampColumnDefault,
     ipv4_addrs |-> <<>>, ipv6_addrs |-> <<>>, log_levels |-> <<>>, numbers |-> <<>>,
     uuids |-> <<>>, emails |-> <<>>, urls |-> <<>>, paths |-> <<>>, date_days |-> <<>>,
     dates |-> <<>>, time_ms |-> <<>>, times |-> <<>>, hex_values |-> <<>>,
     others |-> <<>>, timestamps_raw |-> <<>>]

\* the match of read_all_columns on entry.col_type
StoreColumn(acc, col_type, v) ==
    CASE col_type = Skeleton -> [acc EXCEPT !.skeleton_tokens = v]
      [] col_type = PlaceholderMap -> [acc EXCEPT !.placeholder_map = v]
      [] col_type = Timestamps -> [acc EXCEPT !.timestamps = v]
      [] col_type = TimestampsRaw -> [acc EXCEPT !.timestamps_raw = v]
      [] col_type = IPv4 -> [acc EXCEPT !.ipv4_addrs = v]
      [] col_type = IPv6 -> [acc EXCEPT !.ipv6_addrs = v]
      [] col_type = LogLevels -> [acc EXCEPT !.log_levels = v]
      [] col_type = Numbers -> [acc EXCEPT !.numbers = v]
      [] col_type = UUIDs -> [acc EXCEPT !.uuids = v]
      [] col_type = Emails -> [acc EXCEPT !.emails = v]
      [] col_type = URLs -> [acc EXCEPT !.urls = v]
      [] col_type = Paths -> [acc EXCEPT !.paths = v]
      [] col_type = DateDays -> [acc EXCEPT !.date_days = v]
      [] col_type = DatesRaw -> [acc EXCEPT !.dates = v]
      [] col_type = TimeMs -> [acc EXCEPT !.time_ms = v]
      [] col_type = TimesRaw -> [acc EXCEPT !.times = v]
      [] col_type = HexValues -> [acc EXCEPT !.hex_values = v]
      [] OTHER -> [acc EXCEPT !.others = v]

\* the loop of read_all_columns over the directory entries from k on; reads
\* lists the entries whose blob was decoded
RECURSIVE ReadAllFrom(_, _, _, _, _)
ReadAllFrom(data, columns, k, acc, reads) ==
    IF k > Len(columns) THEN [ok |-> TRUE, err |-> "", payload |-> acc, reads |-> reads]
    ELSE LET blob == ReadBlob(data, columns[k])
         IN  IF ~blob.ok
             THEN [ok |-> FALSE, err |-> blob.err, payload |-> acc, reads |-> reads]
             ELSE ReadAllFrom(data, columns, k + 1,
                              StoreColumn(acc, columns[k].col_type, blob.value[1]),
                              Append(reads, columns[k].col_type))

\* FormatV3Writer::read_all_columns(reader, metadata)
\* the end of read_all_columns: timestamps.raw = timestamps_raw and the
\* ColumnarPayload built from the locals
MergeColumns(r, a) ==
    [ok |-> r.ok, err |-> r.err, reads |-> r.reads,
     payload |->
         [skeleton_tokens |-> a.skeleton_tokens, placeholder_map |-> a.placeholder_map,
          timestamps |-> [a.timestamps EXCEPT !.raw = a.timestamps_raw],
          ipv4_addrs |-> a.ipv4_addrs, ipv6_addrs |-> a.ipv6_addrs,
          log_levels |-> a.log_levels, numbers |-> a.numbers, uuids |-> a.uuids,
          emails |-> a.emails, urls |-> a.urls, paths |-> a.paths,
          date_days |-> a.date_days, dates |-> a.dates, time_ms |-> a.time_ms,
          times |-> a.times, hex_values |-> a.hex_values, others |-> a.others]]

ColumnsRead(r) == MergeColumns(r, r.payload)

\* FormatV3Writer::read_all_columns(reader, metadata)
read_all_columns(data, columns) ==
    ColumnsRead(ReadAllFrom(data, columns, 1, EmptyColumns, <<>>))

\* FormatV3Writer::decompress(data): Ok(text) or Err, and the blobs it decoded
\* decompress once the columns are read
Restored(cols) ==
    IF ~cols.ok THEN [ok |-> FALSE, err |-> cols.err, text |-> <<>>, reads |-> cols.reads]
    ELSE [ok |-> TRUE, err |-> "", text |-> restore(cols.payload), reads |-> cols.reads]

\* decompress once the metadata is read
DecompressColumns(data, metadata) ==
    IF ~metadata.ok THEN [ok |-> FALSE, err |-> metadata.err, text |-> <<>>, reads |-> <<>>]
    ELSE Restored(read_all_columns(data, metadata.columns))

\* FormatV3Writer::decompress(data): Ok(text) or Err, and the blobs it decoded
decompress(data) == DecompressColumns(data, read_from(data))

(***************************************************************************)
(* Inputs                                                                  *)
(***************************************************************************)
\* the pieces the input texts are put together from: plain text, braces that
\* hold no index, numbers with leading and trailing zeros, the long name of
\* WARN, a naive timestamp, a timestamp in UTC notation, an IPv4 address, a
\* URL that holds the characters of placeholder 0, a line break
Pieces ==
    <<
       <<"x">>,
       <<"{", "}">>,
       <<"0", "0", "7">>,
       <<"3", ".", "1", "0">>,
       <<"W", "A", "R", "N", "I", "N", "G">>,
       <<"2", "0", "2", "4", "-", "0", "1", "-", "1", "5", " ", "1", "0", ":", "3", "0", ":", "4", "5">>,
       <<"2", "0", "2", "4", "-", "0", "1", "-", "1", "5", "T", "1", "0", ":", "3", "0", ":", "4", "6", "Z">>,
       <<"1", "0", ".", "0", ".", "0", ".", "1">>,
       <<"h", "t", "t", "p", ":", "/", "/", "a", "/", "{", "0", "}">>,
       <<"\n">> >>

\* the largest number of pieces in an input text
MaxPieces == 2

\* the texts of exactly n pieces, a space between neighbours
RECURSIVE TextsOf(_)
TextsOf(n) ==
    IF n = 0 THEN {<<>>}
    ELSE IF n = 1 THEN {Pieces[k] : k \in 1..Len(Pieces)}
    ELSE {t \o <<" ">> \o Pieces[k] : t \in TextsOf(n - 1), k \in 1..Len(Pieces)}

Texts == UNION {TextsOf(n) : n \in 0..MaxPieces}

(***************************************************************************)
(* Encode / decode pipeline                                                *)
(***************************************************************************)
NoResult == [ok |-> TRUE, err |-> "", text |-> <<>>]

NoCall == [op |-> "none"]

\* the fields every specification starts from
Idle ==
    /\ pc = "start"
    /\ skeleton = <<>> /\ matches = <<>>
    /\ payload = ColumnarPayloadNew(<<>>) /\ added = <<>>
    /\ file = <<>> /\ engine = None /\ call = NoCall
    /\ result = NoResult /\ blob_reads = <<>>

Init == text \in Texts /\ level \in Levels /\ Idle

\* TunedPatternLearner::extract_skeleton(text)
ExtractSkeleton ==
    /\ pc = "start"
    /\ skeleton' = extract_skeleton(text)
    /\ matches' = find_matches(text)
    /\ pc' = "extracted"
    /\ UNCHANGED <<text, level, payload, added, file, engine, call, result, blob_reads>>

\* TunedPatternLearner::restore_text(skeleton, matches)
RestoreText ==
    /\ pc = "extracted"
    /\ result' = [ok |-> TRUE, err |-> "", text |-> restore_text(skeleton, matches)]
    /\ pc' = "restored"
    /\ UNCHANGED <<text, level, skeleton, matches, payload, added, file, engine, call,
                   blob_reads>>

\* ColumnarEncoder::encode(text)
Encode ==
    /\ pc = "start"
    /\ payload' = encode(text)
    /\ pc' = "encoded"
    /\ UNCHANGED <<text, level, skeleton, matches, added, file, engine, call, result,
                   blob_reads>>

\* ColumnarEncoder::decode(payload)
Decode ==
    /\ pc = "encoded"
    /\ result' = [ok |-> TRUE, err |-> "", text |-> restore(payload)]
    /\ pc' = "decoded"
    /\ UNCHANGED <<text, level, skeleton, matches, payload, added, file, engine, call,
                   blob_reads>>

\* FormatV3Writer::new(level).compress(text)
Compress ==
    /\ pc = "start"
    /\ file' = compress(text, level)
    /\ pc' = "compressed"
    /\ UNCHANGED <<text, level, skeleton, matches, payload, added, engine, call, result,
                   blob_reads>>

\* FormatV3Writer::decompress(file)
Decompress ==
    /\ pc \in {"compressed", "tampered", "damaged", "cut", "forged"}
    /\ LET r == decompress(file)
       IN  /\ result' = [ok |-> r.ok, err |-> r.err, text |-> r.text]
           /\ blob_reads' = r.reads
    /\ call' = [op |-> "decompress"]
    /\ pc' = IF pc = "compressed" THEN "decompressed" ELSE "read"
    /\ UNCHANGED <<text, level, skeleton, matches, payload, added, file, engine>>

Next == ExtractSkeleton \/ RestoreText \/ Encode \/ Decode \/ Compress \/ Decompress

Spec == Init /\ [][Next]_vars

(***************************************************************************)
(* Properties of the pipeline                                              *)
(***************************************************************************)
\* C1: decompress(compress(T)) returns T byte for byte, for every text T and
\* each of the three compression levels.
RoundTripExact == pc = "decompressed" => result.ok /\ result.text = text

\* C2: restore_text(extract_skeleton(T)) equals T exactly; a matched text that
\* holds the characters of another placeholder is not rewritten.
RestoreTextExact == pc = "restored" => result.text = text

\* the Ref tokens of a token sequence
RefsOf(tokens) == {tokens[k].idx : k \in {j \in 1..Len(tokens) : tokens[j].ref}}

\* C3: after encode(T) the placeholder map has one entry per match of the
\* extraction, every Ref(i) of the skeleton has i < len(placeholder_map), and
\* get_value returns a value for every entry of the map.
PlaceholderMapComplete ==
    pc = "encoded" =>
        /\ Len(payload.placeholder_map) = Len(find_matches(text))
        /\ \A i \in RefsOf(payload.skeleton_tokens) : i < Len(payload.placeholder_map)
        /\ \A i \in 0..(Len(payload.placeholder_map) - 1) : IsSome(get_value(payload, i))

\* an encoded text with two matches, both referenced by the skeleton
PlaceholderMapWitness ==
    /\ pc = "encoded"
    /\ Len(payload.placeholder_map) = 2
    /\ RefsOf(payload.skeleton_tokens) = {0, 1}

\* the directory of a written file: entry i (from 0) as its 21 bytes say
DirEntry(data, i) ==
    EntryFromBytes(ReadBytes(data, 10 + HeaderSIZE + EntrySIZE * i, EntrySIZE)).entry[1]

\* the column_count field of the header bytes
ColumnCountOf(data) == FromLe(ReadBytes(data, 19, 2))

\* sum of compressed_size over the entries 0..i-1
RECURSIVE SizesBefore(_, _)
SizesBefore(data, i) ==
    IF i = 0 THEN 0 ELSE SizesBefore(data, i - 1) + DirEntry(data, i - 1).compressed_size

\* C6: a container written by compress is "ALICETXT", 3, 0, a 32-byte header
\* with column_count N, N entries of 21 bytes and the blobs in directory order:
\* offset[i] = 42 + 21*N + sum of compressed_size[0..i), every blob ends inside
\* the file and the last one ends with it.
ContainerLayout ==
    pc = "compressed" =>
        LET N == ColumnCountOf(file)
        IN  /\ Len(file) >= 10 + HeaderSIZE + EntrySIZE * N
            /\ ReadBytes(file, 0, 8) = ALICE_TEXT_MAGIC
            /\ file[9].b = 3 /\ file[10].b = 0
            /\ \A i \in 0..(N - 1) :
                 LET e == DirEntry(file, i)
                 IN  /\ e.offset = 42 + 21 * N + SizesBefore(file, i)
                     /\ e.offset + e.compressed_size <= Len(file)
                     /\ (i = N - 1 => e.offset + e.compressed_size = Len(file))
                     /\ e.compressed_size > 0
                     /\ file[e.offset + 1].z # <<>>
                     /\ file[e.offset + 1].z[1].len = e.compressed_size
            /\ \A k \in 1..(42 + 21 * N) : file[k].z = <<>>

\* a written container whose columns hold values of a two-match text
ContainerLayoutWitness ==
    /\ pc = "compressed"
    /\ ColumnCountOf(file) = 18
    /\ DirEntry(file, 1).row_count = 2
    /\ DirEntry(file, 17).offset + DirEntry(file, 17).compressed_size = Len(file)

(***************************************************************************)
(* Columns: add_match on a fresh payload                                   *)
(***************************************************************************)
\* the (pattern_type, text) pairs handed to add_match: for each kind a text
\* the extractor accepts, in the spelling the column keeps and in one it does
\* not, and texts that fall back to the raw columns
Cells ==
    <<
       [pattern_type |-> "Timestamp", text |-> <<"2", "0", "2", "4", "-", "0", "1", "-", "1", "5", " ", "1", "0", ":", "0", "0", ":", "0", "0">>],
       [pattern_type |-> "Timestamp", text |-> <<"2", "0", "2", "4", "-", "0", "1", "-", "1", "5", "T", "1", "0", ":", "3", "0", ":", "4", "6", "Z">>],
       [pattern_type |-> "IPv4", text |-> <<"1", "0", ".", "0", ".", "0", ".", "1">>],
       [pattern_type |-> "IPv4", text |-> <<"1", "9", "2", ".", "1", "6", "8", ".", "0", "1", ".", "1">>],
       [pattern_type |-> "IPv6", text |-> <<"1", ":", "2", ":", "3", ":", "4", ":", "5", ":", "6", ":", "7", ":", "8">>],
       [pattern_type |-> "IPv6", text |-> <<"2", "0", "0", "1", ":", "0", "D", "B", "8", ":", "0", ":", "0", ":", "0", ":", "0", ":", "0", ":", "1">>],
       [pattern_type |-> "UUID", text |-> <<"5", "5", "0", "e", "8", "4", "0", "0", "-", "e", "2", "9", "b", "-", "4", "1", "d", "4", "-", "a", "7", "1", "6", "-", "4", "4", "6", "6", "5", "5", "4", "4", "0", "0", "0", "0">>],
       [pattern_type |-> "UUID", text |-> <<"5", "5", "0", "E", "8", "4", "0", "0", "-", "E", "2", "9", "B", "-", "4", "1", "D", "4", "-", "A", "7", "1", "6", "-", "4", "4", "6", "6", "5", "5", "4", "4", "0", "0", "0", "0">>],
       [pattern_type |-> "LogLevel", text |-> <<"I", "N", "F", "O">>],
       [pattern_type |-> "LogLevel", text |-> <<"W", "A", "R", "N", "I", "N", "G">>],
       [pattern_type |-> "Email", text |-> <<"a", "@", "b", ".", "i", "o">>],
       [pattern_type |-> "URL", text |-> <<"h", "t", "t", "p", ":", "/", "/", "a", "/", "{", "0", "}">>],
       [pattern_type |-> "Path", text |-> <<"/", "v", "a", "r", "/", "l", "o", "g">>],
       [pattern_type |-> "Hex", text |-> <<"0", "x", "F", "F">>],
       [pattern_type |-> "Custom", text |-> <<"a", "b", "c">>],
       [pattern_type |-> "Date", text |-> <<"2", "0", "2", "4", "-", "0", "1", "-", "1", "5">>],
       [pattern_type |-> "Date", text |-> <<"2", "0", "2", "4", "-", "1", "3", "-", "0", "1">>],
       [pattern_type |-> "Time", text |-> <<"1", "0", ":", "3", "0", ":", "4", "5">>],
       [pattern_type |-> "Time", text |-> <<"2", "5", ":", "0", "0", ":", "0", "0">>],
       [pattern_type |-> "Number", text |-> <<"0", "0", "7">>] >>

\* the largest number of add_match calls on one payload
MaxAdds == 2

ColumnInit == text = <<>> /\ level = 0 /\ Idle

\* ColumnarPayload::add_match(pattern_type, text)
AddMatch ==
    /\ pc = "start"
    /\ Len(added) < MaxAdds
    /\ \E k \in 1..Len(Cells) :
         /\ payload' = add_match(payload, Cells[k].pattern_type, Cells[k].text)
         /\ added' = Append(added, Cells[k])
    /\ UNCHANGED <<text, level, pc, skeleton, matches, file, engine, call, result,
                   blob_reads>>

ColumnNext == AddMatch

ColumnSpec == ColumnInit /\ [][ColumnNext]_vars

(***************************************************************************)
(* Timestamp column: add on a fresh column                                 *)
(***************************************************************************)
\* the strings handed to TimestampColumn::add: the three timestamps of a log
\* one and two seconds apart, one with an offset, one in UTC notation, and an
\* earlier one with a fraction
Stamps ==
    <<
       <<"2", "0", "2", "4", "-", "0", "1", "-", "1", "5", " ", "1", "0", ":", "0", "0", ":", "0", "0">>,
       <<"2", "0", "2", "4", "-", "0", "1", "-", "1", "5", " ", "1", "0", ":", "0", "0", ":", "0", "1">>,
       <<"2", "0", "2", "4", "-", "0", "1", "-", "1", "5", " ", "1", "0", ":", "0", "0", ":", "0", "3">>,
       <<"2", "0", "2", "4", "-", "0", "1", "-", "1", "5", "T", "1", "0", ":", "0", "0", ":", "0", "3", "+", "0", "9", ":", "0", "0">>,
       <<"2", "0", "2", "4", "-", "0", "1", "-", "1", "5", "T", "1", "0", ":", "3", "0", ":", "4", "6", "Z">>,
       <<"2", "0", "2", "4", "-", "0", "1", "-", "1", "4", " ", "2", "3", ":", "5", "9", ":", "5", "9", ".", "5">> >>

\* the largest number of add calls on one column
MaxStamps == 3

\* TimestampColumn::add(text)
AddTimestamp ==
    /\ pc = "start"
    /\ Len(added) < MaxStamps
    /\ \E k \in 1..Len(Stamps) :
         /\ payload' = [payload EXCEPT !.timestamps = ts_add(@, Stamps[k]).col]
         /\ added' = Append(added, [pattern_type |-> "Timestamp", text |-> Stamps[k]])
    /\ UNCHANGED <<text, level, pc, skeleton, matches, file, engine, call, result,
                   blob_reads>>

TimestampNext == AddTimestamp

TimestampSpec == ColumnInit /\ [][TimestampNext]_vars

(***************************************************************************)
(* Properties of the columns                                               *)
(***************************************************************************)
\* the extractor accepts t for the kind: its pattern matches all of t
Accepts(pattern_type, t) ==
    pattern_type = "Custom" \/ MatchPattern(pattern_type, t, 1) = Len(t) + 1

\* the kinds whose cells are to come back verbatim
VerbatimKinds == {"IPv4", "IPv6", "UUID", "LogLevel", "Email", "URL", "Path", "Hex", "Custom"}

\* the tags of the raw fallback columns: timestamps, dates, times
RawTags == {13, 14, 15}

\* C4: for IPv4, IPv6, UUID, log level, email, URL, path, hex and custom
\* matches and for values that fall back to a raw column, the string restored
\* for the recorded map entry equals the text handed to add_match.
CellsVerbatim ==
    \A i \in 1..Len(added) :
        (/\ Accepts(added[i].pattern_type, added[i].text)
         /\ \/ added[i].pattern_type \in VerbatimKinds
            \/ payload.placeholder_map[i][1] \in RawTags)
        => get_value(payload, i - 1) = Some(added[i].text)

\* absolute UTC milliseconds of a timestamp string, None when no format of
\* TIMESTAMP_FORMATS_TZ and TIMESTAMP_FORMATS_NAIVE parses it
AbsoluteMs(s) ==
    IF FirstTzFormat(s, 0) < NFormats
    THEN Some(Unwrap(ParseTzFormat(s, FirstTzFormat(s, 0)))[1])
    ELSE IF FirstNaiveFormat(s, 0) < NFormats THEN ParseNaiveFormat(s, FirstNaiveFormat(s, 0))
    ELSE None

\* the texts of `added` that a format parses (want = TRUE) or that none parses
RECURSIVE StampsOf(_, _)
StampsOf(adds, want) ==
    IF adds = <<>> THEN <<>>
    ELSE (IF IsSome(AbsoluteMs(Head(adds).text)) = want THEN <<Head(adds).text>> ELSE <<>>)
         \o StampsOf(Tail(adds), want)

\* C5: after any sequence of add calls deltas has one entry per parsed input,
\* deltas[0] = 0 exactly when base_ms is set, the running sums from base_ms are
\* the absolute milliseconds of the parsed inputs, last_ms is that of the last
\* one, and raw holds the unparsed inputs in order.
TimestampColumnInvariant ==
    LET col == payload.timestamps
        parsed == StampsOf(added, TRUE)
        sums == prepare_for_read(col)
    IN  /\ Len(col.deltas) = Len(parsed)
        /\ IsSome(col.base_ms) <=> (col.deltas # <<>> /\ col.deltas[1] = MsZero)
        /\ Len(sums) = Len(parsed)
        /\ \A i \in 1..Len(parsed) : sums[i] = Unwrap(AbsoluteMs(parsed[i]))
        /\ parsed # <<>> => col.last_ms = Unwrap(AbsoluteMs(parsed[Len(parsed)]))
        /\ col.raw = StampsOf(added, FALSE)

\* base 1705312800000 ms with deltas 0, 1000, 2000
TimestampColumnWitness ==
    /\ payload.timestamps.base_ms = Some(<<19737, 36000000>>)
    /\ payload.timestamps.deltas = <<MsZero, <<0, 1000>>, <<0, 2000>>>>

(***************************************************************************)
(* Opening files: whole, cut short, altered or written by another writer   *)
(***************************************************************************)
\* the texts whose containers are cut and altered
OpenTexts == {<<"x", " ", "0", "0", "7">>, <<"I", "N", "F", "O", " ", "1", "0", ".", "0", ".", "0", ".", "1">>}

OpenInit == text \in OpenTexts /\ level \in Levels /\ Idle

\* the file is cut to its first L bytes
Truncate ==
    /\ pc = "compressed"
    /\ \E L \in 0..(Len(file) - 1) : file' = SubSeq(file, 1, L)
    /\ pc' = "cut"
    /\ UNCHANGED <<text, level, skeleton, matches, payload, added, engine, call, result,
                   blob_reads>>

\* the values a byte of the magic or version is overwritten with
TamperValues == {0, 3, 4}

\* one byte of the magic or the version is overwritten, at most twice
TamperHead ==
    /\ pc \in {"compressed", "tampered"}
    /\ \E pos \in 0..9 : \E val \in TamperValues :
         /\ file[pos + 1].b # val
         /\ file' = [file EXCEPT ![pos + 1] = ByteCell(val)]
    /\ pc' = IF pc = "compressed" THEN "tampered" ELSE "damaged"
    /\ UNCHANGED <<text, level, skeleton, matches, payload, added, engine, call, result,
                   blob_reads>>

\* the offset field of one directory entry is overwritten with the length of
\* the file, so that the entry's byte range lies outside the file
TamperOffset ==
    /\ pc = "compressed"
    /\ \E i \in 0..(FromLe(ReadBytes(file, 19, 2)) - 1) :
         LET at == 10 + HeaderSIZE + EntrySIZE * i + 1
             bytes == ToLe(Len(file), 8)
         IN  file' = [k \in 1..Len(file) |->
                         IF k > at /\ k <= at + 8 THEN ByteCell(bytes[k - at]) ELSE file[k]]
    /\ pc' = "damaged"
    /\ UNCHANGED <<text, level, skeleton, matches, payload, added, engine, call, result,
                   blob_reads>>

\* the payload of the text with its placeholder map altered: the last entry
\* dropped, the first entry given a tag no column has, or the first entry
\* given an index one past its own
Forged(p, how) ==
    CASE how = "drop" -> [p EXCEPT !.placeholder_map = SubSeq(@, 1, Len(@) - 1)]
      [] how = "tag" -> [p EXCEPT !.placeholder_map[1] = <<99, @[2]>>]
      [] OTHER -> [p EXCEPT !.placeholder_map[1] = <<@[1], @[2] + 1>>]

\* another writer lays out a container as compress does, around a payload
\* whose placeholder map does not fit its skeleton and columns
Forge ==
    /\ pc = "start"
    /\ encode(text).placeholder_map # <<>>
    /\ \E how \in {"drop", "tag", "index"} :
         file' = WriteContainer(Forged(encode(text), how), Len(text), LinesCount(text), level)
    /\ pc' = "forged"
    /\ UNCHANGED <<text, level, skeleton, matches, payload, added, engine, call, result,
                   blob_reads>>

\* QueryEngine::open / QueryEngine::from_reader: FormatV3Metadata::read_from
Open ==
    /\ pc \in {"compressed", "tampered", "damaged", "cut", "forged"}
    /\ LET r == read_from(file)
       IN  /\ engine' = IF r.ok THEN Some([header |-> r.header[1], columns |-> r.columns,
                                           pos |-> r.pos])
                        ELSE None
           /\ result' = [ok |-> r.ok, err |-> r.err, text |-> <<>>]
    /\ blob_reads' = <<>>
    /\ call' = [op |-> "open"]
    /\ pc' = "opened"
    /\ UNCHANGED <<text, level, skeleton, matches, payload, added, file>>

OpenNext == Compress \/ Truncate \/ TamperHead \/ TamperOffset \/ Forge \/ Open \/ Decompress

OpenSpec == OpenInit /\ [][OpenNext]_vars

(***************************************************************************)
(* Properties of opening and decoding files                                *)
(***************************************************************************)
\* the file holds the magic
MagicRight(data) == CanRead(data, 0, 8) /\ ReadBytes(data, 0, 8) = ALICE_TEXT_MAGIC

\* the file holds its header and the whole directory the header announces
HeadPresent(data) ==
    /\ CanRead(data, 0, 10 + HeaderSIZE)
    /\ CanRead(data, 0, 10 + HeaderSIZE + EntrySIZE * ColumnCountOf(data))

\* the directory entries 0..n-1 as the bytes of the file say
DirectoryOf(data, n) == [i \in 1..n |-> DirEntry(data, i - 1)]

\* C7: opening fails with InvalidMagic when the first 8 bytes are not
\* "ALICETXT", fails with InvalidVersion when the magic is right and the major
\* version byte is not 3, whatever the minor byte; a file with the right magic
\* and major version that holds its header and directory opens, whatever the
\* minor byte, with the header and the N directory entries of its bytes, the
\* reader left at the end of the directory and no blob decoded.
OpenChecksMagicAndMajor ==
    pc = "opened" =>
        /\ (CanRead(file, 0, 8) /\ ~MagicRight(file))
               => (~result.ok /\ result.err = "InvalidMagic" /\ engine = None)
        /\ (MagicRight(file) /\ CanRead(file, 8, 2) /\ file[9].b # 3)
               => (~result.ok /\ result.err = "InvalidVersion" /\ engine = None)
        /\ (MagicRight(file) /\ HeadPresent(file) /\ file[9].b = 3)
               => /\ result.ok /\ IsSome(engine)
                  /\ Unwrap(engine).header = HeaderFromBytes(ReadBytes(file, 10, HeaderSIZE))
                  /\ Unwrap(engine).columns = DirectoryOf(file, ColumnCountOf(file))
                  /\ Unwrap(engine).pos = 10 + HeaderSIZE + EntrySIZE * ColumnCountOf(file)
                  /\ \A k \in 1..Unwrap(engine).pos : file[k].z = <<>>
                  /\ blob_reads = <<>>

\* a file whose minor version byte is not 0 opened with its 18 entries
OpenWitness ==
    /\ pc = "opened" /\ result.ok
    /\ file[10].b # 0
    /\ Len(Unwrap(engine).columns) = 18

\* the file is the first Len(file) bytes of the container compress writes for
\* the text, and ends before the end of that container's directory
CutInHead ==
    LET B == compress(text, level)
    IN  /\ Len(file) < 42 + 21 * ColumnCountOf(B)
        /\ file = SubSeq(B, 1, Len(file))

\* C8: for a valid container B with N entries, opening B[0..L) with
\* L < 42 + 21*N fails with the error of a short read and yields no engine.
TruncatedHeadFails ==
    (pc = "opened" /\ CutInHead) => (~result.ok /\ result.err = "Io" /\ engine = None)

\* a file cut in the middle of its directory was refused
TruncatedHeadWitness ==
    /\ pc = "opened" /\ CutInHead
    /\ Len(file) > 42 + 21 /\ (Len(file) - 42) % 21 # 0
    /\ ~result.ok

\* what decompress reads from a file that opens: the payload of its blobs
PayloadOf(data) == read_all_columns(data, read_from(data).columns)

\* a Ref token of the file's skeleton has no value: no map entry, a tag no
\* column has, or an index past the end of the column
MissingValue(data) ==
    LET p == PayloadOf(data)
    IN  /\ read_from(data).ok /\ p.ok
        /\ \E i \in RefsOf(p.payload.skeleton_tokens) : get_value(p.payload, i) = None

\* a directory entry's byte range does not lie inside the file
RangeOutside(data) ==
    LET m == read_from(data)
    IN  /\ m.ok
        /\ \E k \in 1..Len(m.columns) :
               m.columns[k].offset + m.columns[k].compressed_size > Len(data)

\* C9: when a file passes the magic and version check but a placeholder of the
\* skeleton has no value or a directory entry's byte range lies outside the
\* file, decompress returns an error.
MalformedRejected ==
    (pc = "read" /\ (MissingValue(file) \/ RangeOutside(file))) => ~result.ok

\* of the malformed files, those with a byte range outside the file are refused
RangeOutsideRejected == (pc = "read" /\ RangeOutside(file)) => ~result.ok

(***************************************************************************)
(* Query engine                                                            *)
(***************************************************************************)
\* the characters of code 32 to 95 and, after the marker "", those of code 97
\* to 126, in the order of their codes
AsciiPrintable ==
    <<
      " ", "!", "\"", "#", "$", "%", "&", "'", "(", ")", "*", "+", ",", "-", ".", "/",
      "0", "1", "2", "3", "4", "5", "6", "7", "8", "9", ":", ";", "<", "=", ">", "?",
      "@", "A", "B", "C", "D", "E", "F", "G", "H", "I", "J", "K", "L", "M", "N", "O",
      "P", "Q", "R", "S", "T", "U", "V", "W", "X", "Y", "Z", "[", "\\", "]", "^", "_",
      "", "a", "b", "c", "d", "e", "f", "g", "h", "i", "j", "k", "l", "m", "n", "o",
      "p", "q", "r", "s", "t", "u", "v", "w", "x", "y", "z", "{", "|", "}", "~" >>

\* the byte of an ASCII character
Ord(c) ==
    CASE c = "\t" -> 9 [] c = "\n" -> 10 [] c = "\r" -> 13
      [] OTHER -> 31 + CHOOSE k \in 1..Len(AsciiPrintable) : AsciiPrintable[k] = c

\* a < b for sequences of integers of any lengths, as slices and strings
\* compare: at the first difference, a proper prefix being smaller
RECURSIVE LexLess(_, _)
LexLess(a, b) ==
    IF b = <<>> THEN FALSE
    ELSE IF a = <<>> THEN TRUE
    ELSE IF Head(a) # Head(b) THEN Head(a) < Head(b)
    ELSE LexLess(Tail(a), Tail(b))

\* str < str, by bytes
StrLess(a, b) == LexLess([k \in 1..Len(a) |-> Ord(a[k])], [k \in 1..Len(b) |-> Ord(b[k])])

\* f64 <: decimals <<m, e>> compared on a common denominator
F64Less(a, b) == a[1] * Pow10(b[2]) < b[1] * Pow10(a[2])

Ops == {"Eq", "Ne", "Lt", "Le", "Gt", "Ge", "Contains", "StartsWith", "EndsWith"}

\* a match on op that lets Contains stand for equality
OpHoldsContainsEq(op, eq, lt, gt) ==
    CASE op = "Eq" -> eq
      [] op = "Ne" -> ~eq
      [] op = "Lt" -> lt
      [] op = "Le" -> lt \/ eq
      [] op = "Gt" -> gt
      [] op = "Ge" -> gt \/ eq
      [] op = "Contains" -> eq
      [] OTHER -> FALSE

\* the match on op shared by scan_primitive and scan_f64, given = and < of the
\* element type
OpHolds(op, eq, lt, gt) ==
    CASE op = "Eq" -> eq
      [] op = "Ne" -> ~eq
      [] op = "Lt" -> lt
      [] op = "Le" -> lt \/ eq
      [] op = "Gt" -> gt
      [] op = "Ge" -> gt \/ eq
      [] OTHER -> FALSE

\* the indices (from 0) of a sequence of booleans that are TRUE, in order
RECURSIVE IndicesFrom(_, _)
IndicesFrom(hits, k) ==
    IF k > Len(hits) THEN <<>>
    ELSE (IF hits[k] THEN <<k - 1>> ELSE <<>>) \o IndicesFrom(hits, k + 1)

\* scan_primitive(data, op, target) for u8 values
scan_u8(data, op, target) ==
    IndicesFrom([k \in 1..Len(data) |->
                    OpHolds(op, data[k] = target, data[k] < target, data[k] > target)], 1)

\* a scanner that takes "not less" for "greater"
scan_primitive_not_less(data, op, target) ==
    IndicesFrom([k \in 1..Len(data) |->
                    OpHolds(op, data[k] = target, LexLess(data[k], target),
                            ~LexLess(data[k], target))], 1)

\* scan_primitive(data, op, target) for u32, u128 and i64 values, which the
\* model holds most significant part first
scan_primitive(data, op, target) ==
    IndicesFrom([k \in 1..Len(data) |->
                    OpHolds(op, data[k] = target, LexLess(data[k], target),
                            LexLess(target, data[k]))], 1)

\* scan_f64(data, op, target): two different values of the model are further
\* apart than f64::EPSILON
scan_f64(data, op, target) ==
    IndicesFrom([k \in 1..Len(data) |->
                    OpHolds(op, data[k] = target, F64Less(data[k], target),
                            F64Less(target, data[k]))], 1)

\* scan_strings(data, op, target)
scan_strings(data, op, target) ==
    IndicesFrom([k \in 1..Len(data) |->
                    CASE op = "Contains" -> Contains(data[k], target)
                      [] op = "StartsWith" -> StartsWith(data[k], target)
                      [] op = "EndsWith" -> EndsWith(data[k], target)
                      [] OTHER -> OpHolds(op, data[k] = target, StrLess(data[k], target),
                                          StrLess(target, data[k]))], 1)

\* ColumnType::name for the tags 0..17
ColumnNames ==
    <<"skeleton", "timestamps", "ipv4", "ipv6", "log_levels", "numbers", "uuids", "emails",
      "urls", "paths", "date_days", "dates_raw", "time_ms", "times_raw", "hex_values",
      "others", "placeholder_map", "timestamps_raw">>

\* QueryEngine::name_to_type(name): Ok(col_type) or Err
name_to_type(name) ==
    IF \E k \in 1..18 : ColumnNames[k] = name
    THEN [ok |-> TRUE, err |-> "", val |-> (CHOOSE k \in 1..18 : ColumnNames[k] = name) - 1]
    ELSE [ok |-> FALSE, err |-> "DecompressionError", val |-> 0]

\* PartialPayload::default()
PartialPayloadDefault ==
    [timestamps |-> None, ipv4_addrs |-> None, ipv6_addrs |-> None, log_levels |-> None,
     numbers |-> None, uuids |-> None, emails |-> None, urls |-> None, paths |-> None]

\* the match of read_columns on col_type: the nine columns a PartialPayload
\* holds are deserialized, any other is dropped after zstd decoded it
StorePartial(partial, col_type, v) ==
    CASE col_type = LogLevels -> [partial EXCEPT !.log_levels = Some(v)]
      [] col_type = Timestamps -> [partial EXCEPT !.timestamps = Some(v)]
      [] col_type = IPv4 -> [partial EXCEPT !.ipv4_addrs = Some(v)]
      [] col_type = IPv6 -> [partial EXCEPT !.ipv6_addrs = Some(v)]
      [] col_type = Numbers -> [partial EXCEPT !.numbers = Some(v)]
      [] col_type = UUIDs -> [partial EXCEPT !.uuids = Some(v)]
      [] col_type = Emails -> [partial EXCEPT !.emails = Some(v)]
      [] col_type = URLs -> [partial EXCEPT !.urls = Some(v)]
      [] col_type = Paths -> [partial EXCEPT !.paths = Some(v)]
      [] OTHER -> partial

\* the loop of read_columns over column_types from k on; reads lists the
\* tags whose blob was fetched and decoded
RECURSIVE ReadColumnsFrom(_, _, _, _, _, _)
ReadColumnsFrom(data, columns, column_types, k, partial, reads) ==
    IF k > Len(column_types) THEN [ok |-> TRUE, err |-> "", val |-> partial, reads |-> reads]
    ELSE LET entry == GetColumn(columns, column_types[k])
             blob == ReadBlob(data, Unwrap(entry))
         IN  IF entry = None
             THEN ReadColumnsFrom(data, columns, column_types, k + 1, partial, reads)
             ELSE IF ~blob.ok
             THEN [ok |-> FALSE, err |-> blob.err, val |-> partial, reads |-> reads]
             ELSE ReadColumnsFrom(data, columns, column_types, k + 1,
                                  StorePartial(partial, column_types[k], blob.value[1]),
                                  Append(reads, column_types[k]))

\* FormatV3Writer::read_columns(reader, metadata, column_types)
read_columns(data, columns, column_types) ==
    ReadColumnsFrom(data, columns, column_types, 1, PartialPayloadDefault, <<>>)

\* a fetch that reads the skeleton along with the column
read_raw_column_and_skeleton(data, columns, col_type) ==
    read_columns(data, columns, <<col_type, Skeleton>>)

\* QueryEngine::read_raw_column(col_type)
read_raw_column(data, columns, col_type) == read_columns(data, columns, <<col_type>>)

\* f applied to every element of a sequence
MapSeq(seq, f(_)) == [k \in 1..Len(seq) |-> f(seq[k])]

\* PartialPayload::timestamp_strings for a column: the values get_delta gives
\* for the indices from i on
\* filter_map on an Option: its value, or nothing
OptionSeq(o) == IF IsSome(o) THEN <<Unwrap(o)>> ELSE <<>>

\* PartialPayload::timestamp_strings for a column: the values get_delta gives
\* for the indices from i on
RECURSIVE TimestampStrings(_, _, _)
TimestampStrings(ts, i, sums) ==
    IF i >= Len(ts.deltas) THEN <<>>
    ELSE OptionSeq(get_delta(ts, i, sums)) \o TimestampStrings(ts, i + 1, sums)

\* Option::map(f).unwrap_or_default() on a column of a PartialPayload
StringsOr(o, f(_)) == IF IsSome(o) THEN MapSeq(Unwrap(o), f) ELSE <<>>

\* QueryEngine::partial_to_strings(partial, col_type)
partial_to_strings(partial, col_type) ==
    CASE col_type = LogLevels -> StringsOr(partial.log_levels, level_to_str)
      [] col_type = IPv4 -> StringsOr(partial.ipv4_addrs, format_ipv4)
      [] col_type = IPv6 -> StringsOr(partial.ipv6_addrs, format_ipv6)
      [] col_type = Timestamps ->
            IF IsSome(partial.timestamps)
            THEN TimestampStrings(Unwrap(partial.timestamps), 0,
                                  prepare_for_read(Unwrap(partial.timestamps)))
            ELSE <<>>
      [] col_type = Numbers -> StringsOr(partial.numbers, format_number)
      [] col_type = UUIDs -> StringsOr(partial.uuids, format_uuid)
      [] col_type = Emails -> StringsOr(partial.emails, Same)
      [] col_type = URLs -> StringsOr(partial.urls, Same)
      [] col_type = Paths -> StringsOr(partial.paths, Same)
      [] OTHER -> <<>>

\* as_ref()?.get(index).map(f) on a column of a PartialPayload
ValueOr(o, index, f(_)) == IF IsSome(o) THEN GetCell(Unwrap(o), index, f) ELSE None

\* QueryEngine::get_value_at(partial, col_type, index)
get_value_at(partial, col_type, index) ==
    CASE col_type = LogLevels -> ValueOr(partial.log_levels, index, level_to_str)
      [] col_type = IPv4 -> ValueOr(partial.ipv4_addrs, index, format_ipv4)
      [] col_type = IPv6 -> ValueOr(partial.ipv6_addrs, index, format_ipv6)
      [] col_type = Timestamps ->
            IF IsSome(partial.timestamps)
            THEN get_delta(Unwrap(partial.timestamps), index,
                           prepare_for_read(Unwrap(partial.timestamps)))
            ELSE None
      [] col_type = Numbers -> ValueOr(partial.numbers, index, format_number)
      [] col_type = UUIDs -> ValueOr(partial.uuids, index, format_uuid)
      [] col_type = Emails -> ValueOr(partial.emails, index, Same)
      [] col_type = URLs -> ValueOr(partial.urls, index, Same)
      [] col_type = Paths -> ValueOr(partial.paths, index, Same)
      [] OTHER -> None

\* QueryEngine::parse_query_timestamp(s) for strings whose fields have the
\* full width: date and time with a space or a T, a fraction or none, or a
\* date alone, which stands for its midnight; Some(ms) or None
\* Option::or_else: the first parse that succeeds
OrElse(first, second) == IF IsSome(first) THEN first ELSE second

\* NaiveDate::parse_from_str(s, "%Y-%m-%d") and and_hms_opt(0, 0, 0)
MidnightOf(y, m, d) == IF ValidDate(y, m, d) THEN Some(<<DaysFromCivil(y, m, d), 0>>) ELSE None

ParseDateOnly(s) ==
    IF DateShape(s, 1) /\ Len(s) = 10
    THEN MidnightOf(DecVal(SubSeq(s, 1, 4)), DecVal(SubSeq(s, 6, 7)), DecVal(SubSeq(s, 9, 10)))
    ELSE None

\* QueryEngine::parse_query_timestamp(s) for strings whose fields have the
\* full width: date and time with a space or a T, a fraction or none, or a
\* date alone, which stands for its midnight; Some(ms) or None
parse_query_timestamp(s) ==
    OrElse(ParseNaive(s, " ", FALSE),
           OrElse(ParseNaive(s, "T", FALSE),
                  OrElse(ParseNaive(s, " ", TRUE),
                         OrElse(ParseNaive(s, "T", TRUE), ParseDateOnly(s)))))

\* the outcome of an operation of the engine: Ok(val) or Err, and the tags
\* whose blob it decoded
Outcome(isok, e, v, reads) == [ok |-> isok, err |-> e, val |-> v, reads |-> reads]

\* the typed dispatch of filter_op once the column is read
\* a typed branch of filter_op: the value is parsed, an unparsable one is an
\* error, and the column, when the file has it, is scanned
ScanParsed(col, op, parsed, reads) ==
    IF parsed = None THEN Outcome(FALSE, "DecompressionError", <<>>, reads)
    ELSE IF IsSome(col) THEN Outcome(TRUE, "", scan_primitive(Unwrap(col), op, Unwrap(parsed)), reads)
    ELSE Outcome(TRUE, "", <<>>, reads)

\* the timestamps of a PartialPayload as absolute values, when it has them
PreparedTimestamps(ts) == IF IsSome(ts) THEN Some(prepare_for_read(Unwrap(ts))) ELSE None

\* the typed dispatch of filter_op once the column is read
FilterTyped(partial, col_type, op, value, reads) ==
    CASE col_type = LogLevels ->
             IF IsSome(partial.log_levels)
             THEN Outcome(TRUE, "",
                          scan_u8(Unwrap(partial.log_levels), op, parse_level(value)), reads)
             ELSE Outcome(TRUE, "", <<>>, reads)
      [] col_type = IPv4 -> ScanParsed(partial.ipv4_addrs, op, parse_ipv4(value), reads)
      [] col_type = IPv6 -> ScanParsed(partial.ipv6_addrs, op, parse_ipv6(value), reads)
      [] col_type = Numbers ->
             IF IsSome(partial.numbers)
             THEN Outcome(TRUE, "",
                          scan_f64(Unwrap(partial.numbers), op,
                                   UnwrapOr(parse_f64(value), F64Zero)), reads)
             ELSE Outcome(TRUE, "", <<>>, reads)
      [] col_type = UUIDs -> ScanParsed(partial.uuids, op, parse_uuid(value), reads)
      [] col_type = Timestamps ->
             ScanParsed(PreparedTimestamps(partial.timestamps), op,
                        parse_query_timestamp(value), reads)
      [] OTHER ->
             Outcome(TRUE, "", scan_strings(partial_to_strings(partial, col_type), op, value),
                     reads)

\* QueryEngine::filter_op(column, op, value): Ok(indices) or Err
\* filter_op once the column is read
FilterRead(partial, col_type, op, value) ==
    IF ~partial.ok THEN Outcome(FALSE, partial.err, <<>>, partial.reads)
    ELSE FilterTyped(partial.val, col_type, op, value, partial.reads)

\* filter_op once the name is resolved
FilterColumn(data, columns, col_type, op, value) ==
    IF ~col_type.ok THEN Outcome(FALSE, col_type.err, <<>>, <<>>)
    ELSE FilterRead(read_raw_column(data, columns, col_type.val), col_type.val, op, value)

\* QueryEngine::filter_op(column, op, value): Ok(indices) or Err
filter_op(data, columns, column, op, value) ==
    FilterColumn(data, columns, name_to_type(column), op, value)

\* QueryEngine::select_column(name): Ok(strings) or Err
\* select_column once the column is read
StringsRead(partial, col_type) ==
    IF ~partial.ok THEN Outcome(FALSE, partial.err, <<>>, partial.reads)
    ELSE Outcome(TRUE, "", partial_to_strings(partial.val, col_type), partial.reads)

\* select_column once the name is resolved
SelectTyped(data, columns, col_type) ==
    IF ~col_type.ok THEN Outcome(FALSE, col_type.err, <<>>, <<>>)
    ELSE StringsRead(read_raw_column(data, columns, col_type.val), col_type.val)

\* QueryEngine::select_column(name): Ok(strings) or Err
select_column(data, columns, name) == SelectTyped(data, columns, name_to_type(name))

\* names.iter().map(name_to_type).collect::<Result<Vec<_>>>(): the types, or
\* the first error
NamesToTypes(names) ==
    IF \A k \in 1..Len(names) : name_to_type(names[k]).ok
    THEN [ok |-> TRUE, err |-> "", val |-> [k \in 1..Len(names) |-> name_to_type(names[k]).val]]
    ELSE [ok |-> FALSE, err |-> "DecompressionError", val |-> <<>>]

\* col_types.par_iter().map(read_raw_column).collect(): one PartialPayload per
\* type, or an error of one of the reads; k is the next type to read
\* col_types.par_iter().map(read_raw_column).collect(): one PartialPayload per
\* type, or an error of one of the reads; k is the next type to read
RECURSIVE ReadPartials(_, _, _, _, _, _)

\* the step of ReadPartials for r, what read_raw_column gave for type k
PartialRead(data, columns, col_types, k, partials, reads, r) ==
    IF ~r.ok THEN Outcome(FALSE, r.err, <<>>, reads \o r.reads)
    ELSE ReadPartials(data, columns, col_types, k + 1, Append(partials, r.val),
                      reads \o r.reads)

ReadPartials(data, columns, col_types, k, partials, reads) ==
    IF k > Len(col_types) THEN Outcome(TRUE, "", partials, reads)
    ELSE PartialRead(data, columns, col_types, k, partials, reads,
                     read_raw_column(data, columns, col_types[k]))

\* the largest row_count among the directory entries of the types, 0 for none
MaxRows(columns, col_types) ==
    LET counts == {Unwrap(GetColumn(columns, col_types[k])).row_count :
                      k \in {j \in 1..Len(col_types) : IsSome(GetColumn(columns, col_types[j]))}}
    IN  IF counts = {} THEN 0 ELSE CHOOSE c \in counts : \A d \in counts : d <= c

\* the QueryRow of index i: the HashMap from the names that have a value at i
\* to that value, as its set of (name, value) pairs
\* row.insert(name, value) when the column has a value: the pair, or nothing
NamedValue(name, o) == IF IsSome(o) THEN {<<name, Unwrap(o)>>} ELSE {}

\* the QueryRow of index i: the HashMap from the names that have a value at i
\* to that value, as its set of (name, value) pairs
RowAt(names, col_types, partials, i) ==
    UNION {NamedValue(names[j], get_value_at(partials[j], col_types[j], i)) :
              j \in 1..Len(names)}

\* QueryEngine::select_columns(names): Ok(QueryResult) or Err
\* the QueryResult of rows 0 .. max_rows - 1
RowsUpTo(names, col_types, partials, max_rows) ==
    [columns |-> names,
     rows |-> [i \in 1..max_rows |-> RowAt(names, col_types, partials, i - 1)]]

\* select_columns once the columns are read
SelectRead(columns, names, col_types, partials) ==
    IF ~partials.ok THEN Outcome(FALSE, partials.err, <<>>, partials.reads)
    ELSE Outcome(TRUE, "",
                 RowsUpTo(names, col_types, partials.val, MaxRows(columns, col_types)),
                 partials.reads)

\* select_columns once the names are resolved
SelectTypes(data, columns, names, col_types) ==
    IF ~col_types.ok THEN Outcome(FALSE, col_types.err, <<>>, <<>>)
    ELSE SelectRead(columns, names, col_types.val,
                    ReadPartials(data, columns, col_types.val, 1, <<>>, <<>>))

\* QueryEngine::select_columns(names): Ok(QueryResult) or Err
select_columns(data, columns, names) ==
    SelectTypes(data, columns, names, NamesToTypes(names))

\* QueryEngine::query(select_columns, filter_column, op, filter_value):
\* Ok(QueryResult) or Err
\* a materialization that takes the k-th row for the k-th index of the filter
QueryReadByPosition(select, indices, col_types, partials) ==
    IF ~partials.ok
    THEN Outcome(FALSE, partials.err, <<>>, indices.reads \o partials.reads)
    ELSE Outcome(TRUE, "",
                 [columns |-> select,
                  rows |-> [k \in 1..Len(indices.val) |->
                               RowAt(select, col_types, partials.val, k - 1)]],
                 indices.reads \o partials.reads)

\* query once the selected columns are read: one row per index of the filter
QueryRead(select, indices, col_types, partials) ==
    IF ~partials.ok
    THEN Outcome(FALSE, partials.err, <<>>, indices.reads \o partials.reads)
    ELSE Outcome(TRUE, "",
                 [columns |-> select,
                  rows |-> [k \in 1..Len(indices.val) |->
                               RowAt(select, col_types, partials.val, indices.val[k])]],
                 indices.reads \o partials.reads)

\* query once the names of the select list are resolved
QueryTypes(data, columns, select, indices, col_types) ==
    IF ~col_types.ok THEN Outcome(FALSE, col_types.err, <<>>, indices.reads)
    ELSE QueryRead(select, indices, col_types.val,
                   ReadPartials(data, columns, col_types.val, 1, <<>>, <<>>))

\* query once the filter has run: no index is an empty result at once
QueryFiltered(data, columns, select, indices) ==
    IF ~indices.ok THEN Outcome(FALSE, indices.err, <<>>, indices.reads)
    ELSE IF indices.val = <<>>
    THEN Outcome(TRUE, "", [columns |-> select, rows |-> <<>>], indices.reads)
    ELSE QueryTypes(data, columns, select, indices, NamesToTypes(select))

\* QueryEngine::query(select_columns, filter_column, op, filter_value):
\* Ok(QueryResult) or Err
query(data, columns, select, filter_column, op, filter_value) ==
    QueryFiltered(data, columns, select,
                  filter_op(data, columns, filter_column, op, filter_value))

(***************************************************************************)
(* Queries on an opened file                                               *)
(***************************************************************************)
\* the logs that are queried: two lines with a level, an address and a number
\* each, and a line with a timestamp, a level and an email
QueryTexts ==
    {<<"I", "N", "F", "O", " ", "1", "0", ".", "0", ".", "0", ".", "1", " ", "7", "\n", "E", "R", "R", "O", "R", " ", "1", "0", ".", "0", ".", "0", ".", "2", " ", "4", "2">>,
     <<"2", "0", "2", "4", "-", "0", "1", "-", "1", "5", " ", "1", "0", ":", "0", "0", ":", "0", "0", " ", "W", "A", "R", "N", " ", "a", "@", "b", ".", "i", "o">>}

\* the column names handed to the engine: names of columns and one that no
\* column has
QueryNames == {"log_levels", "ipv4", "numbers", "emails", "skeleton", "nope"}

\* the largest number of names in a select list
MaxSelect == 2

\* the select lists of exactly n names
RECURSIVE SelectsOf(_)
SelectsOf(n) ==
    IF n = 0 THEN {<<>>}
    ELSE {Append(sel, name) : sel \in SelectsOf(n - 1), name \in QueryNames}

Selects == UNION {SelectsOf(n) : n \in 0..MaxSelect}

\* the filter values: a level, an address, numbers, part of an email and a
\* string that is none of these
QueryValues ==
    {<<"E", "R", "R", "O", "R">>, <<"1", "0", ".", "0", ".", "0", ".", "2">>, <<"4", "2">>, <<"9">>, <<"@", "b">>, <<"n", "o", "n", "e">>}

QueryInit == text \in QueryTexts /\ level \in Levels /\ Idle

\* what an operation of the engine leaves in result and blob_reads
Answer(r) ==
    /\ result' = [ok |-> r.ok, err |-> r.err, val |-> r.val]
    /\ blob_reads' = r.reads
    /\ pc' = "answered"
    /\ UNCHANGED <<text, level, skeleton, matches, payload, added, file, engine>>

\* QueryEngine::select_column(name)
SelectColumn ==
    /\ pc = "opened" /\ IsSome(engine)
    /\ \E name \in QueryNames :
         /\ call' = [op |-> "select_column", select |-> <<name>>, filter |-> <<>>,
                    cmp |-> "", value |-> <<>>]
         /\ Answer(select_column(file, Unwrap(engine).columns, name))

\* QueryEngine::select_columns(names)
SelectColumns ==
    /\ pc = "opened" /\ IsSome(engine)
    /\ \E names \in Selects :
         /\ call' = [op |-> "select_columns", select |-> names, filter |-> <<>>,
                    cmp |-> "", value |-> <<>>]
         /\ Answer(select_columns(file, Unwrap(engine).columns, names))

\* QueryEngine::filter_op(column, op, value)
FilterOp ==
    /\ pc = "opened" /\ IsSome(engine)
    /\ \E column \in QueryNames, op \in Ops, value \in QueryValues :
         /\ call' = [op |-> "filter_op", select |-> <<>>, filter |-> <<column>>,
                    cmp |-> op, value |-> value]
         /\ Answer(filter_op(file, Unwrap(engine).columns, column, op, value))

\* QueryEngine::query(select_columns, filter_column, op, filter_value)
Query ==
    /\ pc = "opened" /\ IsSome(engine)
    /\ \E names \in Selects, column \in QueryNames, op \in Ops, value \in QueryValues :
         /\ call' = [op |-> "query", select |-> names, filter |-> <<column>>,
                    cmp |-> op, value |-> value]
         /\ Answer(query(file, Unwrap(engine).columns, names, column, op, value))

QueryNext == Compress \/ Open \/ SelectColumn \/ SelectColumns \/ FilterOp \/ Query

QuerySpec == QueryInit /\ [][QueryNext]_vars

\* the names an operation was called with
NamesOf(c) == {c.select[k] : k \in 1..Len(c.select)} \cup {c.filter[k] : k \in 1..Len(c.filter)}

KnownNames == {ColumnNames[k] : k \in 1..18}

\* C10: select_column, select_columns, filter_op and query return Err whenever
\* the filter column name or a name of the select list is not one of the 18
\* column names, whether or not the filter matches a row.
UnknownNameIsError ==
    (pc = "answered" /\ ~(NamesOf(call) \subseteq KnownNames)) => ~result.ok

(***************************************************************************)
(* Typed filters and selections on files that hold every kind of column    *)
(***************************************************************************)
\* the logs that are scanned: levels, addresses and numbers; two timestamps
\* that differ in their milliseconds, an email and a hex value; a UUID, an
\* IPv6 address and a date
ScanTexts ==
    {<<"I", "N", "F", "O", " ", "1", "0", ".", "0", ".", "0", ".", "1", " ", "7", "\n", "W", "A", "R", "N", "I", "N", "G", " ", "1", "0", ".", "0", ".", "0", ".", "2", " ", "0">>,
     <<"2", "0", "2", "4", "-", "0", "1", "-", "1", "5", " ", "1", "0", ":", "0", "0", ":", "0", "0", " ", "a", "@", "b", ".", "i", "o", "\n", "2", "0", "2", "4", "-", "0", "1", "-", "1", "5", " ", "1", "0", ":", "0", "0", ":", "0", "0", ".", "2", "5", "0", " ", "0", "x", "1", "F">>,
     <<"5", "5", "0", "e", "8", "4", "0", "0", "-", "e", "2", "9", "b", "-", "4", "1", "d", "4", "-", "a", "7", "1", "6", "-", "4", "4", "6", "6", "5", "5", "4", "4", "0", "0", "0", "0", " ", "2", "0", "0", "1", ":", "d", "b", "8", ":", "0", ":", "0", ":", "0", ":", "0", ":", "0", ":", "1", " ", "2", "0", "2", "4", "-", "0", "1", "-", "1", "5">>}

\* the columns filter_op scans as primitives
TypedNames == {"log_levels", "ipv4", "ipv6", "uuids", "numbers", "timestamps"}

\* every name of a column, and one that no column has
ScanNames == {ColumnNames[k] : k \in 1..18} \cup {"nope"}

\* the filter values: for each typed column values that parse, among them
\* forms that are not the canonical one, and values that do not parse
ScanValues ==
    {<<"W", "A", "R", "N">>,
     <<"1", "0", ".", "0", ".", "0", ".", "2">>,
     <<"1", "9", "2", ".", "1", "6", "8">>,
     <<"0">>,
     <<"7", ".", "0">>,
     <<"2", "0", "2", "4", "-", "0", "1", "-", "1", "5", " ", "1", "0", ":", "0", "0", ":", "0", "0">>,
     <<"2", "0", "2", "4", "-", "0", "1", "-", "1", "5", " ", "1", "0", ":", "0", "0", ":", "0", "0", ".", "2", "5", "0">>,
     <<"5", "5", "0", "E", "8", "4", "0", "0", "-", "E", "2", "9", "B", "-", "4", "1", "D", "4", "-", "A", "7", "1", "6", "-", "4", "4", "6", "6", "5", "5", "4", "4", "0", "0", "0", "0">>,
     <<"2", "0", "0", "1", ":", "d", "b", "8", ":", ":", "1">>,
     <<"@", "b">>,
     <<"n", "o", "n", "e">>}

ScanInit == text \in ScanTexts /\ level \in Levels /\ Idle

\* QueryEngine::select_column(name) for every name
SelectAnyColumn ==
    /\ pc = "opened" /\ IsSome(engine)
    /\ \E name \in ScanNames :
         /\ call' = [op |-> "select_column", select |-> <<name>>, filter |-> <<>>,
                    cmp |-> "", value |-> <<>>]
         /\ Answer(select_column(file, Unwrap(engine).columns, name))

\* QueryEngine::filter_op(column, op, value) for every name
FilterAnyColumn ==
    /\ pc = "opened" /\ IsSome(engine)
    /\ \E column \in ScanNames, op \in Ops, value \in ScanValues :
         /\ call' = [op |-> "filter_op", select |-> <<>>, filter |-> <<column>>,
                    cmp |-> op, value |-> value]
         /\ Answer(filter_op(file, Unwrap(engine).columns, column, op, value))

ScanNext == Compress \/ Open \/ SelectAnyColumn \/ FilterAnyColumn

ScanSpec == ScanInit /\ [][ScanNext]_vars

\* whether a filter value parses as the primitive type of a typed column
ValueParses(name, value) ==
    CASE name = "log_levels" -> parse_level(value) # 7
      [] name = "ipv4" -> IsSome(parse_ipv4(value))
      [] name = "ipv6" -> IsSome(parse_ipv6(value))
      [] name = "uuids" -> IsSome(parse_uuid(value))
      [] name = "numbers" -> IsSome(parse_f64(value))
      [] name = "timestamps" -> IsSome(parse_query_timestamp(value))
      [] OTHER -> TRUE

\* a call of filter_op on a typed column has returned
TypedFilterAnswered ==
    pc = "answered" /\ call.op = "filter_op" /\ call.filter[1] \in TypedNames

\* C11: filter_op on a typed column returns Err for every operator whenever
\* the value does not parse as the primitive type of the column; it never
\* scans with a default value in its place.
UnparsableValueIsError ==
    (TypedFilterAnswered /\ ~ValueParses(call.filter[1], call.value)) => ~result.ok

\* the operators that are defined for strings only
StringOps == {"Contains", "StartsWith", "EndsWith"}

\* a call of filter_op on a typed column with a string operator has returned
StringOpAnswered == TypedFilterAnswered /\ call.cmp \in StringOps

TimestampsOf(data, columns) == read_raw_column(data, columns, Timestamps).val.timestamps

\* the string the timestamps column prints for a cell of ms milliseconds
TimestampString(ts, ms) == IF IsSome(ts) THEN get_delta(Unwrap(ts), 0, <<ms>>) ELSE None

\* the canonical string of a value that parses for a typed column: what
\* select_column prints for a cell that holds the parsed value
CanonicalString(data, columns, name, value) ==
    CASE name = "log_levels" -> Some(level_to_str(parse_level(value)))
      [] name = "ipv4" -> Some(format_ipv4(Unwrap(parse_ipv4(value))))
      [] name = "ipv6" -> Some(format_ipv6(Unwrap(parse_ipv6(value))))
      [] name = "uuids" -> Some(format_uuid(Unwrap(parse_uuid(value))))
      [] name = "numbers" -> Some(format_number(Unwrap(parse_f64(value))))
      [] name = "timestamps" ->
            TimestampString(TimestampsOf(data, columns),
                            Unwrap(parse_query_timestamp(value)))
      [] OTHER -> None

\* the indices (from 0) of the strings that equal the canonical string
IndicesEqual(strings, canonical) ==
    IndicesFrom([k \in 1..Len(strings) |-> <<strings[k]>> = canonical], 1)

\* C13: for a typed column and a value that parses for it, filter_op with Eq
\* returns exactly the indices of the cells whose canonical string, as
\* select_column returns it, equals the canonical string of the value.
EqMatchesCanonical ==
    (TypedFilterAnswered /\ call.cmp = "Eq" /\ ValueParses(call.filter[1], call.value))
        => /\ result.ok
           /\ result.val =
                  IndicesEqual(select_column(file, Unwrap(engine).columns,
                                             call.filter[1]).val,
                               CanonicalString(file, Unwrap(engine).columns,
                                               call.filter[1], call.value))

\* the directory entry of the column of a name, None when the file has none
EntryOf(columns, name) == GetColumn(columns, name_to_type(name).val)

\* C14: for every column name that the directory of the container holds,
\* select_column returns Ok with one string per cell of the column, so as
\* many strings as the row_count of the directory entry.
SelectGivesEveryCell ==
    (/\ pc = "answered" /\ call.op = "select_column"
     /\ call.select[1] \in KnownNames
     /\ IsSome(EntryOf(Unwrap(engine).columns, call.select[1])))
        => /\ result.ok
           /\ Len(result.val) = Unwrap(EntryOf(Unwrap(engine).columns, call.select[1])).row_count

\* the number of cells of the column of a name: the row_count of its
\* directory entry, 0 when the file has no such column
CellCount(columns, name) ==
    IF IsSome(EntryOf(columns, name)) THEN Unwrap(EntryOf(columns, name)).row_count ELSE 0

\* the largest CellCount among the names, 0 for no name
MostCells(columns, names) ==
    IF names = <<>> THEN 0
    ELSE CHOOSE c \in {CellCount(columns, names[j]) : j \in 1..Len(names)} :
             \A j \in 1..Len(names) : CellCount(columns, names[j]) <= c

\* row (a set of pairs of a name and a value) holds the name exactly when
\* the column has a cell i (from 0), and then with the i-th of the strings
KeyAsCell(row, name, i, cells, strings) ==
    IF i < cells
    THEN \E p \in row : p[1] = name /\ (i < Len(strings) => p[2] = strings[i + 1])
    ELSE \A p \in row : p[1] # name

\* a call of select_columns with names of columns has returned
SelectColumnsAnswered ==
    /\ pc = "answered" /\ call.op = "select_columns"
    /\ \A j \in 1..Len(call.select) : call.select[j] \in KnownNames

\* C15: select_columns returns as many rows as the longest of the named
\* columns has cells; row i holds the key c exactly when column c has a cell
\* i, with the canonical string of that cell, and a shorter or absent column
\* gives the later rows no key.
SelectColumnsZips ==
    SelectColumnsAnswered
        => /\ result.ok
           /\ Len(result.val.rows) = MostCells(Unwrap(engine).columns, call.select)
           /\ \A i \in 1..Len(result.val.rows), j \in 1..Len(call.select) :
                  KeyAsCell(result.val.rows[i], call.select[j], i - 1,
                            CellCount(Unwrap(engine).columns, call.select[j]),
                            select_column(file, Unwrap(engine).columns, call.select[j]).val)

\* a call of query has returned; Filtered is what filter_op gives for its
\* filter and Selected what select_columns gives for its select list
QueryAnswered == pc = "answered" /\ call.op = "query"

Filtered == filter_op(file, Unwrap(engine).columns, call.filter[1], call.cmp, call.value)

Selected == select_columns(file, Unwrap(engine).columns, call.select)

\* the indices are in ascending order
Ascending(indices) == \A k \in 1..(Len(indices) - 1) : indices[k] < indices[k + 1]

\* query with a filter that matches nothing: no row and the requested list
EmptyWhenNoIndex(found) ==
    found.val = <<>> => (result.ok /\ result.val = [columns |-> call.select, rows |-> <<>>])

\* C16 as stated: query returns one row per index of filter_op, in ascending
\* order of the indices, and row k is row indices[k] of select_columns of the
\* select list; with no index it returns no row and the requested column list.
QueryRowsOfSelect ==
    (QueryAnswered /\ Filtered.ok /\ (Filtered.val # <<>> => Selected.ok))
        => /\ EmptyWhenNoIndex(Filtered)
           /\ Filtered.val # <<>>
                  => /\ result.ok /\ Ascending(Filtered.val)
                     /\ Len(result.val.rows) = Len(Filtered.val)
                     /\ \A k \in 1..Len(Filtered.val) :
                            /\ Filtered.val[k] < Len(Selected.val.rows)
                            /\ result.val.rows[k] = Selected.val.rows[Filtered.val[k] + 1]

\* row i (from 0) of a result of select_columns, the row without a key when
\* the result has fewer rows
RowOrNoKey(rows, i) == IF i < Len(rows) THEN rows[i + 1] ELSE {}

\* C16: query returns one row per index of filter_op, in ascending order of the
\* indices; row k is row indices[k] of select_columns of the select list, and
\* the row without a key when select_columns has no such row; with no index it
\* returns no row and the requested column list.
QueryRowsOfSelectPadded ==
    (QueryAnswered /\ Filtered.ok /\ (Filtered.val # <<>> => Selected.ok))
        => /\ EmptyWhenNoIndex(Filtered)
           /\ Filtered.val # <<>>
                  => /\ result.ok /\ Ascending(Filtered.val)
                     /\ Len(result.val.rows) = Len(Filtered.val)
                     /\ \A k \in 1..Len(Filtered.val) :
                            result.val.rows[k] = RowOrNoKey(Selected.val.rows, Filtered.val[k])

\* a query has returned the second row of the two selected columns
QueryRowsWitness ==
    /\ QueryAnswered /\ result.ok
    /\ call.select = <<"log_levels", "ipv4">> /\ Filtered.val = <<1>>
    /\ result.val.rows = <<Selected.val.rows[2]>>
    /\ Cardinality(result.val.rows[1]) = 2

\* the tags of the container's column enumeration that hold the cells of a
\* pattern type: the typed column and the column of its raw fallback
ColumnTagsOf(pattern_type) ==
    CASE pattern_type = "Timestamp" -> {Timestamps, TimestampsRaw}
      [] pattern_type = "IPv4" -> {IPv4}
      [] pattern_type = "IPv6" -> {IPv6, Others}
      [] pattern_type = "LogLevel" -> {LogLevels}
      [] pattern_type = "Number" -> {Numbers}
      [] pattern_type = "UUID" -> {UUIDs}
      [] pattern_type = "Email" -> {Emails}
      [] pattern_type = "URL" -> {URLs}
      [] pattern_type = "Path" -> {Paths}
      [] pattern_type = "Date" -> {DateDays, DatesRaw}
      [] pattern_type = "Time" -> {TimeMs, TimesRaw}
      [] pattern_type = "Hex" -> {HexValues}
      [] OTHER -> {Others}

\* C17: every entry (tag, idx) of the placeholder map names its column by the
\* tag of the container's column enumeration (1 Timestamps, 2 IPv4,
\* 4 LogLevels, ..., 17 TimestampsRaw).
MapUsesColumnTags ==
    pc = "encoded"
        => \A k \in 1..Len(payload.placeholder_map) :
               payload.placeholder_map[k][1] \in ColumnTagsOf(find_matches(text)[k].pattern_type)

(***************************************************************************)
(* The parallel fetch of select_columns and query                          *)
(***************************************************************************)
\* the log whose columns are fetched in parallel
FetchTexts ==
    {<<"I", "N", "F", "O", " ", "1", "0", ".", "0", ".", "0", ".", "1", " ", "7", "\n", "E", "R", "R", "O", "R", " ", "1", "0", ".", "0", ".", "0", ".", "2", " ", "4", "2">>}

\* the names of the select lists: three columns of the log and a name that no
\* column has
FetchNames == {"log_levels", "ipv4", "numbers", "nope"}

\* the columns whose directory entries are damaged
FetchTypes == {LogLevels, IPv4, Numbers}

\* the select lists of exactly n of these names
RECURSIVE FetchSelectsOf(_)
FetchSelectsOf(n) ==
    IF n = 0 THEN {<<>>}
    ELSE {Append(sel, name) : sel \in FetchSelectsOf(n - 1), name \in FetchNames}

FetchSelects == UNION {FetchSelectsOf(n) : n \in 0..MaxSelect}

\* the filters of the queries: one that finds the second line, one that
\* finds no line
FetchValues == {<<"E", "R", "R", "O", "R">>, <<"F", "A", "T", "A", "L">>}

FetchInit == text \in FetchTexts /\ level \in Levels /\ Idle

\* the position in the directory of the entry of col_type
EntryIndex(columns, col_type) ==
    CHOOSE k \in 1..Len(columns) : columns[k].col_type = col_type

\* data with the offset field of directory entry i (from 0) overwritten
SetOffset(data, i, offset) ==
    LET at == 10 + HeaderSIZE + EntrySIZE * i + 1
        bytes == ToLe(offset, 8)
    IN  [k \in 1..Len(data) |->
            IF k > at /\ k <= at + 8 THEN ByteCell(bytes[k - at]) ELSE data[k]]

\* two directory entries are damaged in different ways: the offset of one is
\* moved to the end of the file, so that its bytes cannot be read, and the
\* offset of the other is moved one byte on, so that its bytes are no zstd
\* frame
DamageBlobs ==
    /\ pc = "compressed"
    /\ \E out \in FetchTypes : \E shifted \in FetchTypes \ {out} :
         LET columns == read_from(file).columns
         IN  file' = SetOffset(SetOffset(file, EntryIndex(columns, out) - 1, Len(file)),
                               EntryIndex(columns, shifted) - 1,
                               Unwrap(GetColumn(columns, shifted)).offset + 1)
    /\ pc' = "damaged"
    /\ UNCHANGED <<text, level, skeleton, matches, payload, added, engine, call, result,
                   blob_reads>>

\* the call with one task per type: no task has run, no error is saved
Spawned(op, names, column, cmp, value, indices, col_types) ==
    [op |-> op, select |-> names, filter |-> column, cmp |-> cmp, value |-> value,
     indices |-> indices, types |-> col_types,
     slots |-> [j \in 1..Len(col_types) |-> None], saved |-> None, order |-> <<>>]

\* a call that answers before it fetches
Unspawned(op, names, column, cmp, value) ==
    Spawned(op, names, column, cmp, value, Outcome(TRUE, "", <<>>, <<>>), <<>>)

\* col_types.par_iter() of select_columns: the names are resolved and one
\* task per type is handed to the thread pool
BeginSelectTypes(names, col_types) ==
    IF ~col_types.ok
    THEN /\ call' = Unspawned("select_columns", names, <<>>, "", <<>>)
         /\ Answer(Outcome(FALSE, col_types.err, <<>>, <<>>))
    ELSE /\ call' = Spawned("select_columns", names, <<>>, "", <<>>,
                            Outcome(TRUE, "", <<>>, <<>>), col_types.val)
         /\ pc' = "fetching"
         /\ UNCHANGED <<text, level, skeleton, matches, payload, added, file, engine,
                        result, blob_reads>>

BeginSelectColumns ==
    /\ pc = "opened" /\ IsSome(engine)
    /\ \E names \in FetchSelects : BeginSelectTypes(names, NamesToTypes(names))

\* query up to col_types.par_iter(): the filter runs, and with an index found
\* and the names resolved one task per type is handed to the thread pool
BeginQueryFiltered(names, column, cmp, value, indices, col_types) ==
    IF ~indices.ok \/ indices.val = <<>> \/ ~col_types.ok
    THEN /\ call' = Unspawned("query", names, <<column>>, cmp, value)
         /\ Answer(IF ~indices.ok THEN Outcome(FALSE, indices.err, <<>>, indices.reads)
                   ELSE IF indices.val = <<>>
                   THEN Outcome(TRUE, "", [columns |-> names, rows |-> <<>>], indices.reads)
                   ELSE Outcome(FALSE, col_types.err, <<>>, indices.reads))
    ELSE /\ call' = Spawned("query", names, <<column>>, cmp, value, indices, col_types.val)
         /\ pc' = "fetching"
         /\ UNCHANGED <<text, level, skeleton, matches, payload, added, file, engine,
                        result, blob_reads>>

BeginQuery ==
    /\ pc = "opened" /\ IsSome(engine)
    /\ \E names \in FetchSelects, column \in FetchNames, value \in FetchValues :
         BeginQueryFiltered(names, column, "Eq", value,
                            filter_op(file, Unwrap(engine).columns, column, "Eq", value),
                            NamesToTypes(names))

\* the call after task j has given r: the slot holds what it read, and the
\* first error of the tasks is the one that is saved
Fetched(c, j, r) ==
    [c EXCEPT !.slots[j] = Some(r),
              !.order = Append(@, j),
              !.saved = IF ~r.ok /\ @ = None THEN Some(r.err) ELSE @]

\* one task of the pool: read_raw_column(col_types[j]) over its own cursor,
\* at any time and in any order with the other tasks
FetchOne ==
    /\ pc = "fetching"
    /\ \E j \in 1..Len(call.slots) :
         /\ call.slots[j] = None
         /\ call' = Fetched(call, j, read_raw_column(file, Unwrap(engine).columns,
                                                     call.types[j]))
    /\ UNCHANGED <<text, level, pc, skeleton, matches, payload, added, file, engine,
                   result, blob_reads>>

\* the tags of the blobs the tasks read, in the order the tasks ran
RECURSIVE FetchReads(_, _)
FetchReads(c, k) ==
    IF k > Len(c.order) THEN <<>>
    ELSE Unwrap(c.slots[c.order[k]]).reads \o FetchReads(c, k + 1)

\* a collect that takes the payloads in the order the tasks ran
CollectedAsRun(c) ==
    IF IsSome(c.saved) THEN Outcome(FALSE, Unwrap(c.saved), <<>>, FetchReads(c, 1))
    ELSE Outcome(TRUE, "", [j \in 1..Len(c.order) |-> Unwrap(c.slots[c.order[j]]).val],
                 FetchReads(c, 1))

\* .collect::<Result<Vec<_>>>() of the parallel iterator: the saved error, or
\* the payloads in the order of the types
Collected(c) ==
    IF IsSome(c.saved) THEN Outcome(FALSE, Unwrap(c.saved), <<>>, FetchReads(c, 1))
    ELSE Outcome(TRUE, "", [j \in 1..Len(c.slots) |-> Unwrap(c.slots[j]).val],
                 FetchReads(c, 1))

\* the rest of select_columns or query after the collect
Materialized(c, columns, partials) ==
    IF c.op = "select_columns" THEN SelectRead(columns, c.select, c.types, partials)
    ELSE QueryRead(c.select, c.indices, c.types, partials)

\* the collect returns: every task has run, or an error is saved and the
\* tasks that have not run are given up
Collect ==
    /\ pc = "fetching"
    /\ IsSome(call.saved) \/ \A j \in 1..Len(call.slots) : IsSome(call.slots[j])
    /\ call' = call
    /\ Answer(Materialized(call, Unwrap(engine).columns, Collected(call)))

FetchNext == Compress \/ DamageBlobs \/ Open \/ BeginSelectColumns \/ BeginQuery
                \/ FetchOne \/ Collect

FetchSpec == FetchInit /\ [][FetchNext]_vars

\* the answer of the same call with the columns fetched one after the other
Sequential ==
    IF call.op = "select_columns"
    THEN select_columns(file, Unwrap(engine).columns, call.select)
    ELSE query(file, Unwrap(engine).columns, call.select, call.filter[1], call.cmp,
               call.value)

FetchAnswered == pc = "answered" /\ call.op \in {"select_columns", "query"}

SameAnswer(r, s) == r.ok = s.ok /\ r.err = s.err /\ r.val = s.val

\* C18: select_columns and query answer as they would with the selected
\* columns fetched one after the other in list order, however the parallel
\* fetches are scheduled
ParallelAsSequential == FetchAnswered => SameAnswer(result, Sequential)

\* the same for the calls whose fetches all succeed
ParallelRowsAsSequential ==
    (FetchAnswered /\ result.ok) => SameAnswer(result, Sequential)

\* a failed call fails with the error of one of its failing fetches, and the
\* sequential call fails too
ParallelErrorOfSomeFetch ==
    (FetchAnswered /\ ~result.ok) =>
        /\ ~Sequential.ok
        /\ \/ result.err = Sequential.err
           \/ \E j \in 1..Len(call.slots) :
                 /\ IsSome(call.slots[j]) /\ ~Unwrap(call.slots[j]).ok
                 /\ result.err = Unwrap(call.slots[j]).err

\* two columns answered in rows although the second was fetched first
FetchedInReverse ==
    /\ FetchAnswered /\ result.ok
    /\ call.order = <<2, 1>> /\ call.select[1] # call.select[2]
    /\ result.val.rows # <<>>

(***************************************************************************)
(* The blobs an operation reads                                            *)
(***************************************************************************)
\* the tags of the names that are names of columns
NamedTypes(names) ==
    {name_to_type(names[k]).val : k \in {j \in 1..Len(names) : name_to_type(names[j]).ok}}

\* the tags of the blobs the last operation read
ReadSet == {blob_reads[k] : k \in 1..Len(blob_reads)}

\* open has read the 42 bytes before the directory and the directory, and
\* every blob lies after them
OpenReadsHead ==
    (pc = "opened" /\ call.op = "open" /\ IsSome(engine)) =>
        /\ blob_reads = <<>>
        /\ Unwrap(engine).pos = 42 + 21 * Len(Unwrap(engine).columns)
        /\ \A k \in 1..Len(Unwrap(engine).columns) :
              Unwrap(engine).columns[k].offset >= Unwrap(engine).pos

\* filter_op has read the blob of its column and no other
FilterReadsItsColumn ==
    (pc = "answered" /\ call.op = "filter_op" /\ result.ok) =>
        blob_reads = <<name_to_type(call.filter[1]).val>>

\* no operation reads a blob that the call does not name
ReadsOnlyNamed == pc = "answered" => ReadSet \subseteq NamedTypes(call.filter \o call.select)

\* C19 as stated: open reads only the 42 bytes of prefix and header and the
\* directory; filter_op reads exactly the blob of its column; query reads
\* exactly the blob of the filter column plus the blobs of the columns named
\* in select, and never a column that is not named.
QueryReadsFilterAndSelect ==
    /\ OpenReadsHead /\ FilterReadsItsColumn /\ ReadsOnlyNamed
    /\ (QueryAnswered /\ result.ok) =>
          ReadSet = NamedTypes(call.filter \o call.select)

\* C19: open reads only the 42 bytes of prefix and header and the directory;
\* filter_op reads exactly the blob of its column; query reads exactly the
\* blob of the filter column plus, when the filter finds an index, the blobs
\* of the columns named in select, and only the blob of the filter column when
\* it finds none; no operation reads a column that is not named.
QueryReadsFilterThenSelect ==
    /\ OpenReadsHead /\ FilterReadsItsColumn /\ ReadsOnlyNamed
    /\ (QueryAnswered /\ result.ok) =>
          ReadSet = NamedTypes(IF Filtered.val = <<>> THEN call.filter
                               ELSE call.filter \o call.select)

\* a query whose filter finds the second line has read three blobs
QueryReadsWitness ==
    /\ QueryAnswered /\ result.ok
    /\ call.filter = <<"log_levels">> /\ call.select = <<"ipv4", "numbers">>
    /\ Filtered.val = <<1>> /\ blob_reads = <<LogLevels, IPv4, Numbers>>

(***************************************************************************)
(* The header fields and stats                                             *)
(***************************************************************************)
\* the sum of compressed_size over the entries from k on
RECURSIVE CompressedSizeFrom(_, _)
CompressedSizeFrom(columns, k) ==
    IF k > Len(columns) THEN 0
    ELSE columns[k].compressed_size + CompressedSizeFrom(columns, k + 1)

\* FormatV3Metadata::compressed_size
compressed_size(columns) == CompressedSizeFrom(columns, 1)

\* QueryEngine::stats: the FileStats of the metadata; compression_ratio, the
\* f64 compressed_size / original_size, as the pair of the two, and 0.0 as
\* the pair of 0 and 1
stats(header, columns) ==
    [original_size |-> header.original_length,
     compressed_size |-> compressed_size(columns),
     compression_ratio |-> IF header.original_length > 0
                           THEN <<compressed_size(columns), header.original_length>>
                           ELSE <<0, 1>>,
     row_count |-> header.row_count,
     column_count |-> Len(columns),
     columns |-> [k \in 1..Len(columns) |->
                     [name |-> ColumnNames[columns[k].col_type + 1],
                      col_type |-> columns[k].col_type,
                      row_count |-> columns[k].row_count,
                      compressed_size |-> columns[k].compressed_size]]]

\* QueryEngine::stats()
Stats ==
    /\ pc = "opened" /\ IsSome(engine)
    /\ call' = [op |-> "stats"]
    /\ Answer(Outcome(TRUE, "", stats(Unwrap(engine).header, Unwrap(engine).columns), <<>>))

StatsNext == Compress \/ Open \/ Stats \/ Decompress

StatsSpec == Init /\ [][StatsNext]_vars

\* the positions where a line of t ends: at a newline, and at the last
\* character when that is no newline
LineEnds(t) == {k \in 1..Len(t) : t[k] = "\n" \/ k = Len(t)}

\* the header of the file has the length, the level and the lines of the text
HeaderFieldsOf(meta) ==
    /\ meta.ok
    /\ meta.header[1].original_length = Len(text)
    /\ meta.header[1].compression_level = level
    /\ meta.header[1].row_count = Cardinality(LineEnds(text))

HeaderWritten == pc # "start" => HeaderFieldsOf(read_from(file))

StatsAnswered == pc = "answered" /\ call.op = "stats"

\* the empty text: a container that opens, with no row, that decodes to ""
EmptyTextValid ==
    /\ (pc = "opened" /\ text = <<>>) =>
          (IsSome(engine) /\ Unwrap(engine).header.row_count = 0)
    /\ (pc = "decompressed" /\ text = <<>>) => (result.ok /\ result.text = <<>>)

\* C20 as stated: the header written by compress has original_length equal
\* to the byte length of T, compression_level equal to the level code and
\* row_count equal to the number of lines of T; stats() reports these three
\* values; the container of "" is valid, has row_count 0 and decodes to "".
StatsReportsHeader ==
    /\ HeaderWritten /\ EmptyTextValid
    /\ StatsAnswered =>
          /\ result.val.original_size = Len(text)
          /\ result.val.row_count = Cardinality(LineEnds(text))
          /\ "compression_level" \in DOMAIN result.val

\* C20: the header written by compress has original_length equal to the byte
\* length of T, compression_level equal to the level code and row_count equal
\* to the number of lines of T; stats() reports the original length and the
\* row count; the container of "" is valid, has row_count 0 and decodes to "".
StatsReportsLengthAndRows ==
    /\ HeaderWritten /\ EmptyTextValid
    /\ StatsAnswered =>
          /\ result.val.original_size = Len(text)
          /\ result.val.row_count = Cardinality(LineEnds(text))

\* stats of a text of two lines, the second one empty but for a space
StatsWitness ==
    /\ StatsAnswered
    /\ text = <<"\n", " ", "\n">> /\ level = 2
    /\ result.val.original_size = 3 /\ result.val.row_count = 2

(***************************************************************************)
(* Columns: sequences of add_match with parsed and unparsed timestamps     *)
(***************************************************************************)
\* the (pattern_type, text) pairs of the sequences: a naive timestamp, one
\* with an offset, two that the TIMESTAMP pattern matches and no format
\* parses, and cells of other columns, one of them a date no calendar has
AnyCells ==
    <<
       [pattern_type |-> "Timestamp", text |-> <<"2", "0", "2", "4", "-", "0", "1", "-", "1", "5", " ", "1", "0", ":", "0", "0", ":", "0", "0">>],
       [pattern_type |-> "Timestamp", text |-> <<"2", "0", "2", "4", "-", "0", "1", "-", "1", "5", "T", "1", "0", ":", "0", "0", ":", "0", "3", "+", "0", "9", ":", "0", "0">>],
       [pattern_type |-> "Timestamp", text |-> <<"2", "0", "2", "4", "-", "0", "2", "-", "3", "0", " ", "1", "0", ":", "0", "0", ":", "0", "0">>],
       [pattern_type |-> "Timestamp", text |-> <<"2", "0", "2", "4", "-", "0", "1", "-", "1", "5", " ", "2", "5", ":", "0", "0", ":", "0", "0">>],
       [pattern_type |-> "IPv4", text |-> <<"1", "0", ".", "0", ".", "0", ".", "1">>],
       [pattern_type |-> "LogLevel", text |-> <<"I", "N", "F", "O">>],
       [pattern_type |-> "Number", text |-> <<"4", "2">>],
       [pattern_type |-> "Date", text |-> <<"2", "0", "2", "4", "-", "1", "3", "-", "0", "1">>],
       [pattern_type |-> "Email", text |-> <<"a", "@", "b", ".", "i", "o">>] >>

\* the largest number of add_match calls in a sequence
MaxAnyAdds == 3

\* ColumnarPayload::add_match(pattern_type, text)
AddAnyMatch ==
    /\ pc = "start"
    /\ Len(added) < MaxAnyAdds
    /\ \E k \in 1..Len(AnyCells) :
         /\ payload' = add_match(payload, AnyCells[k].pattern_type, AnyCells[k].text)
         /\ added' = Append(added, AnyCells[k])
    /\ UNCHANGED <<text, level, pc, skeleton, matches, file, engine, call, result,
                   blob_reads>>

AnyNext == AddAnyMatch

AnySpec == ColumnInit /\ [][AnyNext]_vars

\* the cell the step hands to add_match
LastAdded == added'[Len(added')]

\* the step adds a text that the TIMESTAMP pattern matches and no format parses
AddsUnparsedTimestamp ==
    /\ Len(added') = Len(added) + 1
    /\ LastAdded.pattern_type = "Timestamp"
    /\ Accepts("Timestamp", LastAdded.text)
    /\ AbsoluteMs(LastAdded.text) = None

\* what C21 says of such a step: add returns (false, index into raw), the text
\* is the new last element of raw, deltas, base and base_ms stay, the new map
\* entry has the tag of the raw timestamps and that index, and get_value of the
\* new placeholder is the text
StoredRaw(before, after, t) ==
    /\ ts_add(before.timestamps, t).is_delta = FALSE
    /\ ts_add(before.timestamps, t).idx = Len(before.timestamps.raw)
    /\ after.timestamps.raw = Append(before.timestamps.raw, t)
    /\ after.timestamps.deltas = before.timestamps.deltas
    /\ after.timestamps.base = before.timestamps.base
    /\ after.timestamps.base_ms = before.timestamps.base_ms
    /\ after.placeholder_map =
          Append(before.placeholder_map, <<13, Len(before.timestamps.raw)>>)
    /\ get_value(after, Len(before.placeholder_map)) = Some(t)

\* C21: a text matched by the TIMESTAMP pattern that no timestamp format
\* parses is stored in the raw list: add returns (false, index into raw),
\* deltas, base and base_ms are unchanged, the map entry carries the
\* raw-timestamp tag, and restoring the placeholder yields the text verbatim.
UnparsedTimestampStoredRaw ==
    [][AddsUnparsedTimestamp => StoredRaw(payload, payload', LastAdded.text)]_vars

\* a raw timestamp added after a parsed one and a raw one
UnparsedTimestampWitness ==
    /\ Len(added) = 3
    /\ AbsoluteMs(added[1].text) # None /\ added[1].pattern_type = "Timestamp"
    /\ payload.timestamps.raw = <<added[2].text, added[3].text>>
    /\ added[2].text # added[3].text
    /\ payload.placeholder_map = <<<<0, 0>>, <<13, 0>>, <<13, 1>>>>
    /\ get_value(payload, 2) = Some(added[3].text)

(***************************************************************************)
(* Numbers: integral cells on restore and on select                        *)
(***************************************************************************)
\* texts of numbers with one space between neighbours: integers, integers
\* written with leading zeros or with a zero fraction, and fractions
NumberTexts ==
    {<<"4", "2">>,
     <<"0", "0", "7", " ", "4", "2", ".", "0">>,
     <<"0", " ", "3", ".", "5", " ", "2", "1", "4", "7", "4", "8", "3", "6", "4", "7">>,
     <<"1", "0", "0", " ", "1", ".", "5", "0", " ", "7">>}

NumberInit == text \in NumberTexts /\ level \in Levels /\ Idle

NumberNext == Compress \/ Open \/ SelectAnyColumn \/ Decompress

NumberSpec == NumberInit /\ [][NumberNext]_vars

\* str is the decimal integer string of k: digits only, no leading zero
IsDecimalOf(str, k) ==
    /\ str # <<>> /\ \A i \in 1..Len(str) : str[i] \in Digit
    /\ Len(str) > 1 => str[1] # "0"
    /\ DecVal(str) = k

\* strings[i] is the integer string of cells[i] for every integral cell
IntegralAsInteger(cells, strings) ==
    /\ Len(strings) = Len(cells)
    /\ \A i \in 1..Len(cells) : cells[i][2] = 0 => IsDecimalOf(strings[i], cells[i][1])

\* C22: a Numbers cell that holds an integer k is re-emitted as the decimal
\* integer string of k, with no decimal point or exponent, by restore and by
\* select_column.
IntegersPrintAsIntegers ==
    /\ pc = "decompressed" =>
          (result.ok /\ IntegralAsInteger(encode(text).numbers, SplitOn(result.text, {" "})))
    /\ (pc = "answered" /\ call.select = <<"numbers">>) =>
          (result.ok /\ IntegralAsInteger(encode(text).numbers, result.val))

\* 007 and 42.0 selected as 7 and 42
IntegersWitness ==
    /\ pc = "answered" /\ call.select = <<"numbers">>
    /\ encode(text).numbers = <<<<7, 0>>, <<42, 0>>>>
    /\ result.val = <<<<"7">>, <<"4", "2">>>>

(***************************************************************************)
(* Properties of find_matches                                              *)
(***************************************************************************)
\* the bytes of a match, counted from 1
BytesOf(m) == (m.start + 1)..m.end

\* C23: find_matches returns matches sorted by start byte, each with
\* start < end <= len(text) and matched_text = text[start..end], and no two
\* matches share a byte.
MatchesSortedDisjoint ==
    /\ \A k \in 1..Len(matches) :
          /\ matches[k].start < matches[k].end
          /\ matches[k].end <= Len(text)
          /\ matches[k].matched_text = SubSeq(text, matches[k].start + 1, matches[k].end)
    /\ \A k \in 1..(Len(matches) - 1) : matches[k].start <= matches[k + 1].start
    /\ \A j, k \in 1..Len(matches) : j # k => BytesOf(matches[j]) \cap BytesOf(matches[k]) = {}

\* two matches of different kinds, the second one after text that is no match
MatchesWitness ==
    /\ pc = "extracted" /\ Len(matches) = 2
    /\ matches[1].pattern_type # matches[2].pattern_type
    /\ matches[1].start = 0 /\ matches[2].start > matches[1].end
    /\ matches[2].end = Len(text)

(***************************************************************************)
(* Priority of the pattern kinds                                           *)
(***************************************************************************)
\* what stands before a value in the texts: nothing, a word, and the start of
\* a path, of a hex literal and of a number that runs into the value
PriorityPrefixes ==
    {<<>>, <<"x", " ">>, <<"/">>, <<"0", "x">>, <<"7", ".">>}

\* the values: timestamps, a time, an address and an email
PriorityValues ==
    {<<"2", "0", "2", "4", "-", "0", "1", "-", "1", "5", " ", "1", "0", ":", "3", "0", ":", "4", "5">>,
     <<"2", "0", "2", "4", "-", "0", "1", "-", "1", "5", "T", "1", "0", ":", "3", "0", ":", "4", "5", "Z">>,
     <<"1", "0", ":", "3", "0", ":", "4", "5">>,
     <<"1", "0", ".", "0", ".", "0", ".", "1">>,
     <<"a", "@", "b", ".", "i", "o">>}

PriorityTexts == {pre \o value : pre \in PriorityPrefixes, value \in PriorityValues}

PriorityInit == text \in PriorityTexts /\ level \in Levels /\ Idle

PrioritySpec == PriorityInit /\ [][Next]_vars

\* the position of a kind in PATTERNS: 1 is the highest priority
PriorityOf(kind) == CHOOSE k \in 1..Len(PATTERNS) : PATTERNS[k] = kind

\* the byte ranges of the candidates of a kind: where its pattern matches
CandidatesOf(kind, t) ==
    {i..(MatchPattern(kind, t, i) - 1) : i \in {j \in 1..Len(t) : MatchPattern(kind, t, j) # 0}}

\* a candidate of a kind of higher priority overlaps the match
Outranked(m, t) ==
    \E k \in 1..(PriorityOf(m.pattern_type) - 1) :
        \E range \in CandidatesOf(PATTERNS[k], t) : range \cap BytesOf(m) # {}

\* C24: when candidates of two kinds overlap, the one of the higher-priority
\* kind is accepted, also when the other starts at an earlier byte: no
\* accepted match overlaps a candidate of a higher-priority kind, and a full
\* timestamp is one TIMESTAMP match.
HigherPriorityAccepted ==
    pc = "extracted" =>
        /\ \A k \in 1..Len(matches) : ~Outranked(matches[k], text)
        /\ MatchTimestamp(text, 1) = Len(text) + 1 =>
              (Len(matches) = 1 /\ matches[1].pattern_type = "Timestamp")

(***************************************************************************)
(* The base of the timestamp column                                        *)
(***************************************************************************)
\* the offset in seconds that a timestamp string carries, None for a naive one
OffsetOf(s) ==
    IF FirstTzFormat(s, 0) < NFormats
    THEN Some(Unwrap(ParseTzFormat(s, FirstTzFormat(s, 0)))[2])
    ELSE None

\* the column holds the base fields that the first parsed timestamp gives, and
\* re-emits that timestamp as a column does that holds it alone
BaseOf(col, first) ==
    /\ col.base = Some(first)
    /\ col.base_ms = AbsoluteMs(first)
    /\ col.base_offset_secs = OffsetOf(first)
    /\ get_delta(col, 0, prepare_for_read(col))
          = get_delta(ts_add(TimestampColumnDefault, first).col, 0, <<Unwrap(AbsoluteMs(first))>>)

\* C25: base, base_ms and the base offset are those of the first parsed
\* timestamp, the offset being none when that timestamp is naive, and no later
\* add changes them or the way earlier timestamps are re-emitted.
BaseFixedByFirstParsed ==
    StampsOf(added, TRUE) # <<>> => BaseOf(payload.timestamps, StampsOf(added, TRUE)[1])

(***************************************************************************)
(* Columns: what one add_match appends                                     *)
(***************************************************************************)
\* the skeletons the payloads of the sequences are made for
AppendSkeletons ==
    { <<>>, <<"a", " ", "{", "0", "}", " ", "b", " ", "{", "1", "}">> }

AppendInit ==
    /\ text = <<>> /\ level = 0
    /\ pc = "start"
    /\ skeleton = <<>> /\ matches = <<>>
    /\ payload \in { ColumnarPayloadNew(s) : s \in AppendSkeletons }
    /\ added = <<>>
    /\ file = <<>> /\ engine = None /\ call = NoCall
    /\ result = NoResult /\ blob_reads = <<>>

AppendSpec == AppendInit /\ [][AnyNext]_vars

\* the tags add_match writes into the placeholder map
MapTags == 0..15

\* the data column of payload p that a map entry with the tag names
CellsOf(p, tag) ==
    CASE tag = 0 -> p.timestamps.deltas
      [] tag = 1 -> p.ipv4_addrs
      [] tag = 2 -> p.log_levels
      [] tag = 3 -> p.numbers
      [] tag = 4 -> p.uuids
      [] tag = 5 -> p.emails
      [] tag = 6 -> p.urls
      [] tag = 7 -> p.paths
      [] tag = 8 -> p.date_days
      [] tag = 9 -> p.time_ms
      [] tag = 10 -> p.hex_values
      [] tag = 11 -> p.others
      [] tag = 12 -> p.ipv6_addrs
      [] tag = 13 -> p.timestamps.raw
      [] tag = 14 -> p.dates
      [] tag = 15 -> p.times

\* long is short with one more element at its end
OneLonger(short, long) ==
    Len(long) = Len(short) + 1 /\ SubSeq(long, 1, Len(short)) = short

\* after is before with one cell appended to the column of tag, the entry
\* (tag, length of that column in before) appended to the map, and every other
\* column and the skeleton tokens as they were
AppendedTo(before, after, tag) ==
    /\ OneLonger(CellsOf(before, tag), CellsOf(after, tag))
    /\ \A other \in MapTags \ {tag} : CellsOf(after, other) = CellsOf(before, other)
    /\ after.placeholder_map
          = Append(before.placeholder_map, <<tag, Len(CellsOf(before, tag))>>)
    /\ after.skeleton_tokens = before.skeleton_tokens

\* C26: each add_match appends exactly one cell to exactly one column and
\* exactly one entry (tag, idx) to the placeholder map, idx being that
\* column's length before the call; no existing cell of any column, no
\* existing map entry and no skeleton token changes.
AddMatchAppendsOnly ==
    [][Len(added') = Len(added) + 1
          => \E tag \in MapTags : AppendedTo(payload, payload', tag)]_vars

\* a payload with skeleton tokens after three calls, the last two of them
\* with the same unparsable timestamp
AddMatchAppendsWitness ==
    /\ Len(added) = 3
    /\ payload.skeleton_tokens # <<>>
    /\ added[2] = added[3] /\ added[1] # added[2]
    /\ added[3].pattern_type = "Timestamp" /\ AbsoluteMs(added[3].text) = None
    /\ payload.timestamps.raw = <<added[2].text, added[3].text>>
    /\ payload.placeholder_map[2] = <<13, 0>> /\ payload.placeholder_map[3] = <<13, 1>>

(***************************************************************************)
(* Columns: the placeholder map counts the cells of every column           *)
(***************************************************************************)
\* the sum of the lengths of the data columns of p with the tags from tag on
RECURSIVE CellsFrom(_, _)
CellsFrom(p, tag) ==
    IF tag > 15 THEN 0 ELSE Len(CellsOf(p, tag)) + CellsFrom(p, tag + 1)

\* the idx values of the entries of map with the tag, in map order
RECURSIVE IdxOf(_, _)
IdxOf(map, tag) ==
    IF map = <<>> THEN <<>>
    ELSE (IF Head(map)[1] = tag THEN <<Head(map)[2]>> ELSE <<>>) \o IdxOf(Tail(map), tag)

\* idxs is 0, 1, 2, ... up to n - 1
CountsTo(idxs, n) == Len(idxs) = n /\ \A k \in 1..n : idxs[k] = k - 1

\* C28: after any sequence of add_match calls on a fresh payload the lengths
\* of the data columns sum to the length of the placeholder map, and the idx
\* values of each tag are 0, 1, 2, ... in map order, one per cell of its column.
MapCountsCells ==
    /\ CellsFrom(payload, 0) = Len(payload.placeholder_map)
    /\ Len(payload.placeholder_map) = Len(added)
    /\ \A tag \in MapTags :
          CountsTo(IdxOf(payload.placeholder_map, tag), Len(CellsOf(payload, tag)))

\* three calls that fill two columns, one of them twice, with a cell of the
\* other column in between
MapCountsWitness ==
    /\ Len(added) = 3
    /\ IdxOf(payload.placeholder_map, 13) = <<0, 1>>
    /\ IdxOf(payload.placeholder_map, 14) = <<0>>
    /\ payload.placeholder_map[2][1] = 14
    /\ CellsFrom(payload, 0) = 3

(***************************************************************************)
(* The directory of a written container                                    *)
(***************************************************************************)
\* the pieces of the texts: a word, a timestamp, a timestamp that no format
\* parses, a log level, an IPv4 address, a line break, a date that no calendar
\* has, a number
DirectoryPieces ==
    <<
       <<"x">>,
       <<"2", "0", "2", "4", "-", "0", "1", "-", "1", "5", " ", "1", "0", ":", "0", "0", ":", "0", "0">>,
       <<"2", "0", "2", "4", "-", "0", "2", "-", "3", "0", " ", "1", "0", ":", "0", "0", ":", "0", "0">>,
       <<"I", "N", "F", "O">>,
       <<"1", "0", ".", "0", ".", "0", ".", "1">>,
       <<"\n">>,
       <<"2", "0", "2", "4", "-", "1", "3", "-", "0", "1">>,
       <<"4", "2">> >>

\* the texts of exactly n pieces, a space between neighbours
RECURSIVE DirectoryTextsOf(_)
DirectoryTextsOf(n) ==
    IF n = 0 THEN {<<>>}
    ELSE IF n = 1 THEN {DirectoryPieces[k] : k \in 1..Len(DirectoryPieces)}
    ELSE {t \o <<" ">> \o DirectoryPieces[k] :
             t \in DirectoryTextsOf(n - 1), k \in 1..Len(DirectoryPieces)}

DirectoryTexts == UNION {DirectoryTextsOf(n) : n \in 0..MaxPieces}

DirectoryInit == text \in DirectoryTexts /\ level \in Levels /\ Idle

DirectoryNext == Compress \/ Decompress

DirectorySpec == DirectoryInit /\ [][DirectoryNext]_vars

\* the number of cells of the column of payload p that col_type names
CellsIn(p, col_type) ==
    CASE col_type = Skeleton -> Len(p.skeleton_tokens)
      [] col_type = Timestamps -> Len(p.timestamps.deltas)
      [] col_type = IPv4 -> Len(p.ipv4_addrs)
      [] col_type = IPv6 -> Len(p.ipv6_addrs)
      [] col_type = LogLevels -> Len(p.log_levels)
      [] col_type = Numbers -> Len(p.numbers)
      [] col_type = UUIDs -> Len(p.uuids)
      [] col_type = Emails -> Len(p.emails)
      [] col_type = URLs -> Len(p.urls)
      [] col_type = Paths -> Len(p.paths)
      [] col_type = DateDays -> Len(p.date_days)
      [] col_type = DatesRaw -> Len(p.dates)
      [] col_type = TimeMs -> Len(p.time_ms)
      [] col_type = TimesRaw -> Len(p.times)
      [] col_type = HexValues -> Len(p.hex_values)
      [] col_type = Others -> Len(p.others)
      [] col_type = PlaceholderMap -> Len(p.placeholder_map)
      [] col_type = TimestampsRaw -> Len(p.timestamps.raw)

\* the entry of directory dir with the tag col_type, if there is one
EntriesWith(dir, col_type) == {i \in 1..Len(dir) : dir[i].col_type = col_type}

\* directory dir names every tag at most once, Skeleton and PlaceholderMap
\* once, and counts the cells of payload p
DirectoryCounts(dir, p) ==
    /\ \A col_type \in 0..17 : Cardinality(EntriesWith(dir, col_type)) <= 1
    /\ Cardinality(EntriesWith(dir, Skeleton)) = 1
    /\ Cardinality(EntriesWith(dir, PlaceholderMap)) = 1
    /\ \A i \in 1..Len(dir) : dir[i].row_count = CellsIn(p, dir[i].col_type)

\* C27: in every container written by compress each column tag appears at
\* most once in the directory, the Skeleton and PlaceholderMap entries are
\* present also when they are empty, and each entry's row_count is the number
\* of cells of its column in the encoded payload: delta entries for
\* Timestamps, raw entries for TimestampsRaw, matches for PlaceholderMap,
\* tokens for Skeleton.
DirectoryCountsCells ==
    pc = "compressed" => DirectoryCounts(DirectoryOf(file, ColumnCountOf(file)), encode(text))

\* directory dir has an entry with the tag col_type and the row_count n
Counts(dir, col_type, n) ==
    \E i \in 1..Len(dir) : dir[i].col_type = col_type /\ dir[i].row_count = n

\* the container of a text with a parsed and an unparsed timestamp
DirectoryCountsWitness ==
    /\ pc = "compressed"
    /\ Counts(DirectoryOf(file, ColumnCountOf(file)), Timestamps, 1)
    /\ Counts(DirectoryOf(file, ColumnCountOf(file)), TimestampsRaw, 1)
    /\ Counts(DirectoryOf(file, ColumnCountOf(file)), PlaceholderMap, 2)
    /\ Counts(DirectoryOf(file, ColumnCountOf(file)), Skeleton, 3)

\* the container of the empty text: no token, no match, and both entries
EmptyDirectoryWitness ==
    /\ pc = "compressed" /\ text = <<>>
    /\ Counts(DirectoryOf(file, ColumnCountOf(file)), PlaceholderMap, 0)
    /\ Counts(DirectoryOf(file, ColumnCountOf(file)), Skeleton, 0)

(***************************************************************************)
(* Typed filters: the six comparisons of one column and one value          *)
(***************************************************************************)
\* the columns filter_op scans as integers
IntegerNames == {"log_levels", "ipv4", "ipv6", "uuids", "timestamps"}

\* a call of filter_op on an integer column with a value that parses has
\* returned
IntegerFilterAnswered ==
    /\ TypedFilterAnswered
    /\ call.filter[1] \in IntegerNames
    /\ ValueParses(call.filter[1], call.value)

\* what filter_op answers for the column and the value of the call with the
\* operator op: the result of the call itself for its own operator
AnswerFor(op) ==
    IF op = call.cmp THEN result
    ELSE filter_op(file, Unwrap(engine).columns, call.filter[1], op, call.value)

\* the elements of a sequence
Range(s) == {s[k] : k \in 1..Len(s)}

\* indices rises strictly and stays within 0..n-1
AscendingBelow(indices, n) ==
    /\ \A k \in 1..Len(indices) : indices[k] >= 0 /\ indices[k] < n
    /\ \A k \in 1..(Len(indices) - 1) : indices[k] < indices[k + 1]

\* the relations of C29 between the index sets of the six operators on a
\* column of n cells
Trichotomy(eq, ne, lt, le, gt, ge, n) ==
    /\ eq \cap ne = {} /\ eq \cup ne = 0..(n - 1)
    /\ lt \cap eq = {} /\ lt \cap gt = {} /\ eq \cap gt = {}
    /\ lt \cup eq \cup gt = 0..(n - 1)
    /\ le = lt \cup eq
    /\ ge = gt \cup eq

\* C29: for every integer-typed column and every parsable value filter_op
\* returns strictly ascending indices within [0, column length); Eq and Ne
\* are disjoint and cover every index; Lt, Eq and Gt are pairwise disjoint
\* and cover every index; Le = Lt + Eq and Ge = Gt + Eq.
ComparisonsPartition ==
    IntegerFilterAnswered =>
        /\ result.ok
        /\ AscendingBelow(result.val,
                          Len(select_column(file, Unwrap(engine).columns,
                                            call.filter[1]).val))
        /\ \A op \in Ops : AnswerFor(op).ok
        /\ Trichotomy(Range(AnswerFor("Eq").val), Range(AnswerFor("Ne").val),
                      Range(AnswerFor("Lt").val), Range(AnswerFor("Le").val),
                      Range(AnswerFor("Gt").val), Range(AnswerFor("Ge").val),
                      Len(select_column(file, Unwrap(engine).columns,
                                        call.filter[1]).val))

\* Le on a column of two addresses with the larger one as value: one index
\* from Lt and one from Eq
ComparisonsWitness ==
    /\ IntegerFilterAnswered
    /\ call.filter[1] = "ipv4" /\ call.cmp = "Le"
    /\ result.val = <<0, 1>>
    /\ AnswerFor("Lt").val = <<0>> /\ AnswerFor("Eq").val = <<1>>
    /\ AnswerFor("Gt").val = <<>> /\ AnswerFor("Ne").val = <<0>>

(***************************************************************************)
(* Rows and the lines of the input                                         *)
(***************************************************************************)
\* the logs whose rows are looked at: one with a line that has no address,
\* one with a line that has two, and one with a level, an address and a
\* number on every line
LineTexts ==
    {<<"I", "N", "F", "O", " ", "1", "0", ".", "0", ".", "0", ".", "1", "\n", "E", "R", "R", "O", "R", "\n", "W", "A", "R", "N", " ", "1", "0", ".", "0", ".", "0", ".", "2">>,
     <<"I", "N", "F", "O", " ", "1", "0", ".", "0", ".", "0", ".", "1", " ", "1", "0", ".", "0", ".", "0", ".", "2", "\n", "E", "R", "R", "O", "R", " ", "1", "0", ".", "0", ".", "0", ".", "3">>,
     <<"I", "N", "F", "O", " ", "1", "0", ".", "0", ".", "0", ".", "1", " ", "7", "\n", "E", "R", "R", "O", "R", " ", "1", "0", ".", "0", ".", "0", ".", "2", " ", "4", "2">>}

\* the log whose lines all hold one cell of each of its columns
AlignedText == <<"I", "N", "F", "O", " ", "1", "0", ".", "0", ".", "0", ".", "1", " ", "7", "\n", "E", "R", "R", "O", "R", " ", "1", "0", ".", "0", ".", "0", ".", "2", " ", "4", "2">>

LineInit == text \in LineTexts /\ level = 0 /\ Idle

LineNext == Compress \/ Open \/ SelectColumns \/ Query

LineSpec == LineInit /\ [][LineNext]_vars

\* the names of the data columns among QueryNames and the tags add_match
\* writes for them
LineNames == {"log_levels", "ipv4", "numbers", "emails"}

MapTagOf(name) ==
    CASE name = "ipv4" -> 1
      [] name = "log_levels" -> 2
      [] name = "numbers" -> 3
      [] name = "emails" -> 5

\* the line (from 0) of the input t in which a match begins
LineOfMatch(t, m) == CountChar(SubSeq(t, 1, m.start), "\n")

\* the line of t from which the cell idx of the column with the map tag comes:
\* that of the match whose map entry is (tag, idx); ms are the matches of t and
\* map is the placeholder map of its payload
LineOfCell(t, ms, map, tag, idx) ==
    LineOfMatch(t, ms[CHOOSE k \in 1..Len(map) : map[k] = <<tag, idx>>])

\* the cell index of row k (from 1) of the answer: k - 1 for select_columns,
\* the k-th index of the filter for query
RowIndex(k) ==
    IF call.op = "query"
    THEN filter_op(file, Unwrap(engine).columns, call.filter[1], call.cmp, call.value).val[k]
    ELSE k - 1

\* the data columns that have a value in a row
NamesIn(row) == {pair[1] : pair \in row} \cap LineNames

\* the values of the row with cell index idx come from one line of t
OneLine(t, ms, map, row, idx) ==
    \A a \in NamesIn(row), b \in NamesIn(row) :
        LineOfCell(t, ms, map, MapTagOf(a), idx) = LineOfCell(t, ms, map, MapTagOf(b), idx)

\* select_columns or query has returned rows
RowsAnswered ==
    pc = "answered" /\ call.op \in {"select_columns", "query"} /\ result.ok

\* C30: in every row returned by query or select_columns the values of all
\* selected columns originate from the same line of the input text, also when
\* some line holds zero or more than one cell of a selected or filtered column.
RowsFromOneLine ==
    RowsAnswered =>
        \A k \in 1..Len(result.val.rows) :
            OneLine(text, find_matches(text), encode(text).placeholder_map,
                    result.val.rows[k], RowIndex(k))

\* the rows of a log whose lines all hold one cell of each column come from
\* one line each
AlignedRowsFromOneLine == text = AlignedText => RowsFromOneLine

\* every value of a row is the cell of its column at the cell index of the row
RowsFromOneIndex ==
    RowsAnswered =>
        \A k \in 1..Len(result.val.rows) :
            \A pair \in result.val.rows[k] :
                pair[1] \in LineNames =>
                    Some(pair[2]) = get_value(encode(text),
                                              (CHOOSE j \in 1..Len(encode(text).placeholder_map) :
                                                  encode(text).placeholder_map[j]
                                                     = <<MapTagOf(pair[1]), RowIndex(k)>>) - 1)

====
